---- MODULE Spec2Model ----
(***************************************************************************)
(* A model of winpath (quantumJLBass/winpath): the PATH optimization       *)
(* pipeline, the environment-variable substitution engine and the          *)
(* backup / restore / apply operations of the terminal UI.                 *)
(*                                                                         *)
(* Go strings are TLA+ strings; Len, \o, SubSeq, Head and Tail act on them *)
(* character by character, as Go's len, +, slicing and indexing do on the  *)
(* ASCII strings used here.                                                *)
(***************************************************************************)
EXTENDS Integers, Sequences, FiniteSets, TLC

VARIABLES
    \* ---- one OptimizeWithProgress run (part_003) ----
    optPc,        \* position in OptimizeWithProgress: "start" | "loop" | "done";
                  \* "subst" | "substDone" around a lone SubstituteEnvVars call;
                  \* "idle" when no run is under way
    pathStr,      \* the pathStr argument
    opts,         \* the OptimizeOptions argument
    hotPaths,     \* Config.HotPaths as LoadConfig returns it
    envVars,      \* the process environment (GetAllEnvVars, os.Getenv)
    entries,      \* ParsePath(pathStr)
    idx,          \* index (1-based) of the next entry of the range loop
    proc,         \* the entryProcessor: seen, and the result's Changes and Metrics
    survivors,    \* the slice `optimized` built by the loop
    result,       \* the OptimizeResult returned
    substOut,     \* what SubstituteEnvVars(pathStr) returned: <<path, substituted>>
    \* ---- the registry, the backup directory and the UI session ----
    clock,        \* time.Now(), in whole seconds (the precision of a backup's filename)
    files,        \* the backup directory: the backup files written and not removed
    userPath,     \* the User PATH in the registry
    systemPath,   \* the System (Machine) PATH in the registry
    pathExt,      \* PATHEXT in the registry, per target
    isAdmin,      \* Model.isAdmin
    maxBackups,   \* Config.MaxBackups, as saved
    screen,       \* Model.screen
    msg,          \* the applyCompleteMsg on its way to Update, or NoMsg
    mErr,         \* Model.err
    mBackupInfo,  \* Model.backupInfo
    last,         \* what the last operation did: its calls in order, and its outcome
    names,        \* the filename written by each successful CreateBackup, in call order
    ops,          \* number of key presses delivered to Update so far
    keysDropped,  \* how many of them Update dropped because the screen was loading
    sel,          \* the Model's lists and the selection index into each, its text
                  \* inputs and its modes
    links,        \* the names of the junctions in the junction folder
    \* ---- one call of a library function, followed statement by statement ----
    callPc,       \* the function under way and the position in it; "idle" when none
    callArgs,     \* the arguments of the call, and what it reads from its surroundings
    callRet,      \* the function's local result, and, when it has returned, its value
    \* ---- the analysis task and the loading screen (model.go) ----
    progressChan, \* the buffered channel progressChan: the updates sent and not received
    taskPc,       \* analyzeCmd's position: "entries" | "return" | "done"; "idle" when none
    taskAt,       \* the index AnalyzeAllWithProgress reports next
    totalEntries, \* totalEntries: len(sysEntries) + len(usrEntries)
    loading,      \* Model.loadingDots, loadingCurrent, loadingTotal, loadingItem
    listening     \* a listenForProgress command is under way

optVars == <<optPc, pathStr, opts, hotPaths, envVars, entries, idx, proc, survivors,
            result, substOut>>

bkVars == <<clock, files, userPath, systemPath, pathExt, isAdmin, maxBackups,
            screen, msg, mErr, mBackupInfo, last, names, ops, keysDropped, sel, links>>

callVars == <<callPc, callArgs, callRet>>

progVars == <<progressChan, taskPc, taskAt, totalEntries, loading, listening>>

vars == <<optVars, bkVars, callVars, progVars>>

(***************************************************************************)
(* Strings                                                                 *)
(***************************************************************************)

UpperLetters == "ABCDEFGHIJKLMNOPQRSTUVWXYZ"
LowerLetters == "abcdefghijklmnopqrstuvwxyz"

CharAt(s, i) == SubSeq(s, i, i)

UpperSet == { CharAt(UpperLetters, i) : i \in 1..Len(UpperLetters) }

\* strings.ToLower on one ASCII character
LowerOf == [ c \in UpperSet |->
               CharAt(LowerLetters,
                      CHOOSE i \in 1..Len(UpperLetters) : CharAt(UpperLetters, i) = c) ]

ToLowerChar(c) == IF c \in UpperSet THEN LowerOf[c] ELSE c

RECURSIVE ToLower(_)
ToLower(s) == IF s = "" THEN "" ELSE ToLowerChar(Head(s)) \o ToLower(Tail(s))

\* os.IsPathSeparator on Windows
IsPathSeparator(c) == c = "\\" \/ c = "/"

\* strings.TrimRight(p, "\\/")
RECURSIVE TrimRightSeparators(_)
TrimRightSeparators(s) ==
    IF s # "" /\ IsPathSeparator(CharAt(s, Len(s)))
    THEN TrimRightSeparators(SubSeq(s, 1, Len(s) - 1))
    ELSE s

\* strings.Contains(s, c) for a one-character c
RECURSIVE ContainsChar(_, _)
ContainsChar(s, c) ==
    IF s = "" THEN FALSE
    ELSE IF Head(s) = c THEN TRUE ELSE ContainsChar(Tail(s), c)

\* strings.HasPrefix
HasPrefix(s, p) == Len(p) <= Len(s) /\ SubSeq(s, 1, Len(p)) = p

\* strings.Index(s, c) for a one-character c, 1-based; 0 when absent (Go: -1)
RECURSIVE IndexFrom(_, _, _)
IndexFrom(s, c, i) ==
    IF i > Len(s) THEN 0
    ELSE IF CharAt(s, i) = c THEN i ELSE IndexFrom(s, c, i + 1)

IndexChar(s, c) == IndexFrom(s, c, 1)

\* strings.LastIndex(s, c) for a one-character c, 1-based; 0 when absent
RECURSIVE LastIndexFrom(_, _, _)
LastIndexFrom(s, c, i) ==
    IF i < 1 THEN 0
    ELSE IF CharAt(s, i) = c THEN i ELSE LastIndexFrom(s, c, i - 1)

LastIndexChar(s, c) == LastIndexFrom(s, c, Len(s))

\* the rest of s from 1-based position i on (Go: s[i-1:])
From(s, i) == SubSeq(s, i, Len(s))

\* the 1-based positions in s of a character of the set seps
SeparatorsAt(s, seps) == { i \in 1..Len(s) : CharAt(s, i) \in seps }

\* the k-th of the positions pos, in increasing order
NthOf(pos, k) == CHOOSE i \in pos : Cardinality({ j \in pos : j < i }) = k - 1

\* the k-th part of s between the separators at the positions pos
PartOf(s, pos, k) ==
    SubSeq(s,
           IF k = 1 THEN 1 ELSE NthOf(pos, k - 1) + 1,
           IF k = Cardinality(pos) + 1 THEN Len(s) ELSE NthOf(pos, k) - 1)

\* the parts of s between the separators at the positions pos
RECURSIVE PartsFrom(_, _, _)
PartsFrom(s, pos, k) ==
    IF k > Cardinality(pos) + 1 THEN <<>>
    ELSE <<PartOf(s, pos, k)>> \o PartsFrom(s, pos, k + 1)

\* strings.Split(s, sep), for any separator character of the set seps
Split(s, seps) == PartsFrom(s, SeparatorsAt(s, seps), 1)

\* strings.Join(parts, sep)
RECURSIVE Join(_, _)
Join(parts, sep) ==
    IF parts = <<>> THEN ""
    ELSE IF Len(parts) = 1 THEN parts[1]
    ELSE parts[1] \o sep \o Join(Tail(parts), sep)

IsSpace(c) == c = " " \/ c = "\t"

RECURSIVE TrimLeftSpace(_)
TrimLeftSpace(s) ==
    IF s # "" /\ IsSpace(Head(s)) THEN TrimLeftSpace(Tail(s)) ELSE s

RECURSIVE TrimRightSpace(_)
TrimRightSpace(s) ==
    IF s # "" /\ IsSpace(CharAt(s, Len(s)))
    THEN TrimRightSpace(SubSeq(s, 1, Len(s) - 1))
    ELSE s

\* a trimming that takes the spaces inside s as well
RECURSIVE TrimAllSpace(_)
TrimAllSpace(s) ==
    IF s = "" THEN ""
    ELSE (IF IsSpace(Head(s)) THEN "" ELSE Head(s)) \o TrimAllSpace(Tail(s))

\* strings.TrimSpace
TrimSpace(s) == TrimRightSpace(TrimLeftSpace(s))

NonEmpty(s) == s # ""

\* ParsePath: split on ';', trim each segment, drop the empty ones
ParsePath(str) ==
    IF str = "" THEN <<>>
    ELSE SelectSeq([ i \in 1..Len(Split(str, {";"})) |->
                       TrimSpace(Split(str, {";"})[i]) ], NonEmpty)

\* JoinPath
JoinPath(es) == Join(es, ";")

(***************************************************************************)
(* filepath.Clean of the Windows build, which NormalizePath calls.  A      *)
(* drive-letter volume ("c:") is kept in front and the rest is cleaned;    *)
(* UNC volumes (a path starting with two separators) are not modelled and  *)
(* no input of the model starts that way.                                  *)
(***************************************************************************)

LowerSet == { CharAt(LowerLetters, i) : i \in 1..Len(LowerLetters) }

IsLetter(c) == c \in UpperSet \/ c \in LowerSet

VolumeNameLen(p) ==
    IF Len(p) >= 2 /\ CharAt(p, 2) = ":" /\ IsLetter(CharAt(p, 1)) THEN 2 ELSE 0

\* the elements of the cleaned path: "." dropped, ".." removes the element
\* before it (or is kept in front of a path that is not rooted)
RECURSIVE CleanElements(_, _, _)
CleanElements(comps, rooted, out) ==
    IF comps = <<>> THEN out
    ELSE LET c == Head(comps) IN
         IF c = "" \/ c = "." THEN CleanElements(Tail(comps), rooted, out)
         ELSE IF c = ".."
              THEN IF out # <<>> /\ out[Len(out)] # ".."
                   THEN CleanElements(Tail(comps), rooted, SubSeq(out, 1, Len(out) - 1))
                   ELSE IF ~rooted
                        THEN CleanElements(Tail(comps), rooted, Append(out, ".."))
                        ELSE CleanElements(Tail(comps), rooted, out)
              ELSE CleanElements(Tail(comps), rooted, Append(out, c))

Clean(p) ==
    LET volLen == VolumeNameLen(p)
        vol    == SubSeq(p, 1, volLen)
        rest   == From(p, volLen + 1)
    IN  IF rest = "" THEN p \o "."
        ELSE LET rooted == IsPathSeparator(Head(rest))
                 elems  == CleanElements(Split(rest, {"\\", "/"}), rooted, <<>>)
                 body   == (IF rooted THEN "\\" ELSE "") \o Join(elems, "\\")
             IN  vol \o (IF body = "" THEN "." ELSE body)


\* NormalizePath: lowercase, trim trailing separators, clean
NormalizePath(p) == Clean(TrimRightSeparators(ToLower(p)))

(***************************************************************************)
(* The environment of one run: the process environment (os.Environ), and   *)
(* the file system as os.Stat and the shell's 8.3 short-name query see it. *)
(***************************************************************************)

\* os.Getenv / a lookup in GetAllEnvVars(): "" when the variable is not set
Getenv(env, name) == IF name \in DOMAIN env THEN env[name] ELSE ""

\* the directories that exist, by normalized form (os.Stat on Windows is
\* case-insensitive and ignores a trailing separator)
FsDirs == { "c:\\a", "c:\\b", "c:\\c", "c:\\d", "c:\\windows", "c:\\windows\\system32",
            "c:\\program files", "c:\\windows\\long folder", "c:\\windows\\a b",
            "c:\\users\\jo", "c:\\users\\jo\\bin",
            "c:\\program files\\java\\jdk-17.0.2\\bin" }

\* the 8.3 short path the Scripting.FileSystemObject reports for a directory
FsShortPath == [ d \in FsDirs |->
    CASE d = "c:\\program files"         -> "C:\\PROGRA~1"
      [] d = "c:\\windows\\long folder"  -> "C:\\Windows\\LONGFO~1"
      [] d = "c:\\windows\\a b"          -> "C:\\Windows\\AB~1"
      [] OTHER -> "" ]

\* PathExists
PathExists(path) ==
    IF ContainsChar(path, "%") THEN TRUE ELSE NormalizePath(path) \in FsDirs

\* the output of the short-path PowerShell command: the ShortPath of an
\* existing directory, else the path itself
ShellShortPath(path) ==
    LET n == NormalizePath(path) IN
    IF n \in FsDirs /\ FsShortPath[n] # "" THEN FsShortPath[n] ELSE path

\* ToShortPath
ToShortPath(path) ==
    IF path = "" \/ ContainsChar(path, "%") THEN <<path, FALSE>>
    ELSE LET res == ShellShortPath(path) IN
         IF res = "" \/ res = path THEN <<path, FALSE>>
         ELSE IF Len(res) < Len(path) THEN <<res, TRUE>>
         ELSE <<path, FALSE>>

(***************************************************************************)
(* envvars.go: substitution and expansion of environment variables         *)
(***************************************************************************)

SubstitutionPriority ==
    << "LOCALAPPDATA", "APPDATA", "USERPROFILE", "ProgramFiles(x86)", "ProgramFiles",
       "ProgramW6432", "CommonProgramFiles(x86)", "CommonProgramFiles", "SystemRoot",
       "WINDIR", "SystemDrive", "JAVA_HOME", "GOPATH", "GOROOT", "CARGO_HOME",
       "RUSTUP_HOME", "NVM_HOME", "NVM_SYMLINK", "PNPM_HOME" >>

\* expandShortUserPath: an 8.3 user-folder name under <SystemDrive>\Users\ is
\* replaced by the folder name of USERPROFILE
expandShortUserPath(path, env) ==
    LET pathLower   == ToLower(path)
        sd          == ToLower(Getenv(env, "SystemDrive"))
        systemDrive == IF sd = "" THEN "c:" ELSE sd
        usersDir    == systemDrive \o "\\users\\"
    IN  IF ~HasPrefix(pathLower, usersDir) THEN path
        ELSE LET afterUsers == From(path, Len(usersDir) + 1)
                 nextSlash  == IndexChar(afterUsers, "\\")
             IN  IF nextSlash = 0 THEN path
                 ELSE LET userPart    == SubSeq(afterUsers, 1, nextSlash - 1)
                          userProfile == Getenv(env, "USERPROFILE")
                      IN  IF ~ContainsChar(userPart, "~") THEN path
                          ELSE IF userProfile = "" THEN path
                          ELSE IF ~HasPrefix(ToLower(userProfile), usersDir) THEN path
                          ELSE LET rest0 == From(userProfile, Len(usersDir) + 1)
                                   cut   == IndexChar(rest0, "\\")
                                   realUserPart == IF cut # 0 THEN SubSeq(rest0, 1, cut - 1)
                                                   ELSE rest0
                                   remaining == From(afterUsers, nextSlash)
                               IN  SubSeq(userProfile, 1, Len(usersDir))
                                     \o realUserPart \o remaining

\* a prefix test that does not look at what follows the value
AnyRemaining(remaining) == TRUE

\* the path-boundary test of SubstituteEnvVars on the rest after the value
AtPathBoundary(remaining) ==
    remaining = "" \/ Head(remaining) = "\\" \/ Head(remaining) = "/"

\* a replacement that lets a later candidate win a tie
BetterOrEqualMatch(saved, best) == saved >= best.saved

\* the replacement of bestMatch: a later candidate wins only if it saves more
BetterMatch(saved, best) == saved > best.saved

\* one iteration of the loop over SubstitutionPriority
SubstStep(path, normalizedPath, pathLower, env, varName, best) ==
    LET value == Getenv(env, varName) IN
    IF ~(varName \in DOMAIN env) \/ value = "" THEN best
    ELSE IF ~HasPrefix(pathLower, ToLower(value)) THEN best
    ELSE LET remaining == From(normalizedPath, Len(value) + 1) IN
         IF ~AtPathBoundary(remaining) THEN best
         ELSE LET newPath == "%" \o varName \o "%" \o remaining
                  saved   == Len(path) - Len(newPath)
              IN  IF BetterMatch(saved, best)
                  THEN [varName |-> varName, remaining |-> remaining, saved |-> saved]
                  ELSE best

RECURSIVE SubstLoop(_, _, _, _, _, _)
SubstLoop(path, normalizedPath, pathLower, env, i, best) ==
    IF i > Len(SubstitutionPriority) THEN best
    ELSE SubstLoop(path, normalizedPath, pathLower, env, i + 1,
                   SubstStep(path, normalizedPath, pathLower, env,
                             SubstitutionPriority[i], best))

\* bestMatch after the loop of SubstituteEnvVars
BestMatch(path, env) ==
    LET normalizedPath == expandShortUserPath(path, env) IN
    SubstLoop(path, normalizedPath, ToLower(normalizedPath), env, 1,
              [varName |-> "", remaining |-> "", saved |-> 0])

\* SubstituteEnvVars: <<new path, changed>>
SubstituteEnvVars(path, env) ==
    IF path = "" \/ ContainsChar(path, "%") THEN <<path, FALSE>>
    ELSE LET best == BestMatch(path, env) IN
         IF best.varName # "" /\ best.saved > 0
         THEN <<"%" \o best.varName \o "%" \o best.remaining, TRUE>>
         ELSE <<path, FALSE>>

\* one iteration of the loop of ExpandEnvVars: the first %name% token is
\* replaced by the variable's value; the loop ends at a lone '%' or at a
\* variable without a value
ExpandStep(res, env) ==
    LET start == IndexChar(res, "%") IN
    IF start = 0 THEN [result |-> res, again |-> FALSE]
    ELSE LET e == IndexChar(From(res, start + 1), "%") IN
         IF e = 0 THEN [result |-> res, again |-> FALSE]
         ELSE LET end     == e + start
                  varName == SubSeq(res, start + 1, end - 1)
                  value   == Getenv(env, varName)
              IN  IF value # ""
                  THEN [result |-> SubSeq(res, 1, start - 1) \o value \o From(res, end + 1),
                        again  |-> TRUE]
                  ELSE [result |-> res, again |-> FALSE]

RECURSIVE ExpandLoop(_, _)
ExpandLoop(res, env) ==
    LET st == ExpandStep(res, env) IN
    IF st.again THEN ExpandLoop(st.result, env) ELSE st.result

\* ExpandEnvVars
ExpandEnvVars(path, env) ==
    IF path = "" \/ ~ContainsChar(path, "%") THEN path ELSE ExpandLoop(path, env)

\* extractVarAndSuffix: <<varPart, suffix, ok>>
extractVarAndSuffix(pathWithVar) ==
    LET lastPercent == LastIndexChar(pathWithVar, "%") IN
    IF lastPercent = 0 \/ lastPercent = Len(pathWithVar) THEN <<"", "", FALSE>>
    ELSE LET varPart == SubSeq(pathWithVar, 1, lastPercent)
             suffix  == From(pathWithVar, lastPercent + 1)
         IN  IF suffix = "" \/ suffix = "\\" THEN <<"", "", FALSE>>
             ELSE <<varPart, suffix, TRUE>>

\* a ShortenSuffix that returns the short form whatever its length
ShortenSuffixAnyLength(pathWithVar, env) ==
    LET ex == extractVarAndSuffix(pathWithVar) IN
    IF ~ex[3] THEN <<pathWithVar, FALSE>>
    ELSE LET expanded == ExpandEnvVars(pathWithVar, env) IN
         IF expanded = "" \/ expanded = pathWithVar THEN <<pathWithVar, FALSE>>
         ELSE LET shortExpanded == ShellShortPath(expanded) IN
              IF shortExpanded = "" \/ shortExpanded = expanded THEN <<pathWithVar, FALSE>>
              ELSE LET expandedVarValue == ExpandEnvVars(ex[1], env) IN
                   IF HasPrefix(ToLower(shortExpanded), ToLower(expandedVarValue))
                   THEN <<ex[1] \o From(shortExpanded, Len(expandedVarValue) + 1), TRUE>>
                   ELSE <<pathWithVar, FALSE>>

\* ShortenSuffix: <<new path, changed>>
ShortenSuffix(pathWithVar, env) ==
    LET ex == extractVarAndSuffix(pathWithVar) IN
    IF ~ex[3] THEN <<pathWithVar, FALSE>>
    ELSE LET expanded == ExpandEnvVars(pathWithVar, env) IN
         IF expanded = "" \/ expanded = pathWithVar THEN <<pathWithVar, FALSE>>
         ELSE LET shortExpanded == ShellShortPath(expanded) IN
              IF shortExpanded = "" \/ shortExpanded = expanded THEN <<pathWithVar, FALSE>>
              ELSE LET expandedVarValue == ExpandEnvVars(ex[1], env) IN
                   IF HasPrefix(ToLower(shortExpanded), ToLower(expandedVarValue))
                   THEN LET newPath == ex[1] \o From(shortExpanded, Len(expandedVarValue) + 1)
                        IN  IF Len(newPath) < Len(pathWithVar) THEN <<newPath, TRUE>>
                            ELSE <<pathWithVar, FALSE>>
                   ELSE <<pathWithVar, FALSE>>


(***************************************************************************)
(* The optimization pipeline (part_003).  The entryProcessor is the record *)
(* [seen, Changes, Metrics]: its seen map and the two fields of the result *)
(* it appends to.                                                          *)
(***************************************************************************)

PathChange(type, original, new, saved) ==
    [Type |-> type, Original |-> original, New |-> new, Saved |-> saved]

ZeroMetrics ==
    [DuplicatesRemoved |-> 0, DeadPathsRemoved |-> 0, PathsShortened |-> 0,
     VarsSubstituted |-> 0, TotalSaved |-> 0, PercentageSaved |-> 0]

\* newEntryProcessor
newEntryProcessor == [seen |-> {}, Changes |-> <<>>, Metrics |-> ZeroMetrics]

\* a duplicate test on the entry's text instead of its normalized form
isDuplicateByText(p, o, entry, normalized) ==
    IF ~o.RemoveDuplicates THEN <<p, FALSE>>
    ELSE IF entry \in p.seen
         THEN <<[p EXCEPT !.Changes = Append(@, PathChange("duplicate", entry, "", 0)),
                          !.Metrics.DuplicatesRemoved = @ + 1], TRUE>>
         ELSE <<[p EXCEPT !.seen = @ \cup {entry}], FALSE>>

\* entryProcessor.isDuplicate: <<processor, is duplicate>>
isDuplicate(p, o, entry, normalized) ==
    IF ~o.RemoveDuplicates THEN <<p, FALSE>>
    ELSE IF normalized \in p.seen
         THEN <<[p EXCEPT !.Changes = Append(@, PathChange("duplicate", entry, "", 0)),
                          !.Metrics.DuplicatesRemoved = @ + 1], TRUE>>
         ELSE <<[p EXCEPT !.seen = @ \cup {normalized}], FALSE>>

\* entryProcessor.isDeadPath: <<processor, is dead>>
isDeadPath(p, o, entry) ==
    IF ~o.RemoveDeadPaths THEN <<p, FALSE>>
    ELSE IF ContainsChar(entry, "%") THEN <<p, FALSE>>
    ELSE IF PathExists(entry) THEN <<p, FALSE>>
    ELSE <<[p EXCEPT !.Changes = Append(@, PathChange("dead", entry, "", 0)),
                     !.Metrics.DeadPathsRemoved = @ + 1], TRUE>>

\* the change tryShorten and tryShortenSuffix record for a shorter form
recordShortened(p, current, new, saved) ==
    <<[p EXCEPT !.Changes = Append(@, PathChange("shortened", current, new, saved)),
                !.Metrics.PathsShortened = @ + 1,
                !.Metrics.TotalSaved = @ + saved], new>>

\* the change trySubstituteVars records
recordVariable(p, current, new, saved) ==
    <<[p EXCEPT !.Changes = Append(@, PathChange("variable", current, new, saved)),
                !.Metrics.VarsSubstituted = @ + 1,
                !.Metrics.TotalSaved = @ + saved], new>>

\* tryShorten once ToShortPath returned sp = <<short, shortened>>
tryShortenWith(p, current, sp) ==
    IF ~sp[2] \/ Len(sp[1]) >= Len(current) THEN <<p, current>>
    ELSE recordShortened(p, current, sp[1], Len(current) - Len(sp[1]))

\* entryProcessor.tryShorten: <<processor, current>>
tryShorten(p, o, current) ==
    IF ~o.ShortenPaths \/ ContainsChar(current, "%") THEN <<p, current>>
    ELSE tryShortenWith(p, current, ToShortPath(current))

\* trySubstituteVars once SubstituteEnvVars returned sb = <<subst, substituted>>
trySubstituteVarsWith(p, current, sb) ==
    IF ~sb[2] \/ Len(sb[1]) >= Len(current) THEN <<p, current>>
    ELSE recordVariable(p, current, sb[1], Len(current) - Len(sb[1]))

\* entryProcessor.trySubstituteVars: <<processor, current>>
trySubstituteVars(p, o, env, current) ==
    IF ~o.SubstituteVars \/ ContainsChar(current, "%") THEN <<p, current>>
    ELSE trySubstituteVarsWith(p, current, SubstituteEnvVars(current, env))

\* entryProcessor.tryShortenSuffix: <<processor, current>>
tryShortenSuffix(p, o, env, current) ==
    IF ~o.ShortenPaths THEN <<p, current>>
    ELSE tryShortenWith(p, current, ShortenSuffix(current, env))

\* processEntry's return for an entry that is skipped, and for one that is kept
Skipped(p) == <<p, "", FALSE>>

Kept(pc) == <<pc[1], pc[2], TRUE>>

\* processEntry after trySubstituteVars returned sb
afterSubstitute(sb, o, env, beforeSubst) ==
    IF sb[2] # beforeSubst THEN Kept(tryShortenSuffix(sb[1], o, env, sb[2]))
    ELSE Kept(sb)

\* processEntry after tryShorten returned sh
afterShorten(sh, o, env) ==
    afterSubstitute(trySubstituteVars(sh[1], o, env, sh[2]), o, env, sh[2])

\* processEntry after isDeadPath returned dead
afterDeadPath(dead, o, env, entry) ==
    IF dead[2] THEN Skipped(dead[1])
    ELSE afterShorten(tryShorten(dead[1], o, entry), o, env)

\* processEntry after isDuplicate returned dup
afterDuplicate(dup, o, env, entry) ==
    IF dup[2] THEN Skipped(dup[1])
    ELSE afterDeadPath(isDeadPath(dup[1], o, entry), o, env, entry)

\* entryProcessor.processEntry: <<processor, processed entry, ok>>
processEntry(p, o, env, entry) ==
    afterDuplicate(isDuplicate(p, o, entry, NormalizePath(entry)), o, env, entry)

\* hotPathsSet of applyHotPaths, as a lookup on the normalized hot paths hn:
\* the index of the last hot path with that normalized form; 0 when none
HotIndex(normalized, hn) ==
    LET is == { i \in 1..Len(hn) : hn[i] = normalized } IN
    IF is = {} THEN 0 ELSE CHOOSE i \in is : \A j \in is : j <= i

\* hot[i] and hotFound[i] after the loop over the entries: slot[k] is the
\* hotPathsSet index of entry k; the last entry written to hot[i] stays
HotSlot(slot, i) ==
    LET ks == { k \in 1..Len(slot) : slot[k] = i } IN
    IF ks = {} THEN 0 ELSE CHOOSE k \in ks : \A j \in ks : j <= k

\* the result's first part: hot[i] for every i with hotFound[i], in index order
RECURSIVE HotPart(_, _, _, _)
HotPart(es, slot, n, i) ==
    IF i > n THEN <<>>
    ELSE LET k == HotSlot(slot, i) IN
         (IF k # 0 THEN <<es[k]>> ELSE <<>>) \o HotPart(es, slot, n, i + 1)

\* the slice `regular`: the entries that are no hot path, in order
RECURSIVE RegularPart(_, _, _)
RegularPart(es, slot, k) ==
    IF k > Len(es) THEN <<>>
    ELSE (IF slot[k] = 0 THEN <<es[k]>> ELSE <<>>) \o RegularPart(es, slot, k + 1)

\* the entries that are a hot path, in PATH order
RECURSIVE HotInPathOrder(_, _, _)
HotInPathOrder(es, slot, k) ==
    IF k > Len(es) THEN <<>>
    ELSE (IF slot[k] # 0 THEN <<es[k]>> ELSE <<>>) \o HotInPathOrder(es, slot, k + 1)

\* a prioritization that puts every configured hot path in front, in the
\* PATH or not
applyHotPathsAdding(es, hps) ==
    IF Len(hps) = 0 THEN es
    ELSE LET hn   == [ i \in 1..Len(hps) |-> NormalizePath(hps[i]) ]
             slot == [ k \in 1..Len(es) |-> HotIndex(NormalizePath(es[k]), hn) ]
         IN  hps \o RegularPart(es, slot, 1)

\* a prioritization that keeps the hot entries in PATH order
applyHotPathsPathOrder(es, hps) ==
    IF Len(hps) = 0 THEN es
    ELSE LET hn   == [ i \in 1..Len(hps) |-> NormalizePath(hps[i]) ]
             slot == [ k \in 1..Len(es) |-> HotIndex(NormalizePath(es[k]), hn) ]
         IN  HotInPathOrder(es, slot, 1) \o RegularPart(es, slot, 1)

\* applyHotPaths
applyHotPaths(es, hps) ==
    IF Len(hps) = 0 THEN es
    ELSE LET hn   == [ i \in 1..Len(hps) |-> NormalizePath(hps[i]) ]
             slot == [ k \in 1..Len(es) |-> HotIndex(NormalizePath(es[k]), hn) ]
         IN  HotPart(es, slot, Len(hps), 1) \o RegularPart(es, slot, 1)

PathInfo(raw, es) == [Raw |-> raw, Entries |-> es, Length |-> Len(raw), Count |-> Len(es)]

\* float64(orig-opt)/float64(orig)*100, kept as the whole percent
PercentageSaved(origLen, optLen) ==
    IF origLen > 0 THEN ((origLen - optLen) * 100) \div origLen ELSE 0


(***************************************************************************)
(* One run of OptimizeWithProgress, entry by entry.                        *)
(***************************************************************************)

MaxEntries == 3
MaxHotPaths == 2

\* the PATH entries the runs are made of: case and trailing-separator
\* variants of one directory, a directory that does not exist, a placeholder
\* entry, and entries that the shorten and substitute passes rewrite
EntryPool == { "C:\\a", "c:\\A\\", "C:\\gone", "%windir%\\System32", "C:\\Windows\\System32" }

HotPool == { "C:\\A", "%windir%\\system32" }

\* PATH values as the registry can hold them, with padded and empty segments
RawPathPool == { " C:\\a ;;c:\\A\\ ; C:\\gone;" }

Options(dup, dead, short, subst) ==
    [RemoveDuplicates |-> dup, RemoveDeadPaths |-> dead,
     ShortenPaths |-> short, SubstituteVars |-> subst]

\* DefaultOptions
DefaultOptions == Options(TRUE, TRUE, TRUE, TRUE)

\* the options of the runs: DefaultOptions (the only options the UI passes),
\* and the settings callers of Optimize derive from it by clearing fields
OptionSets ==
    { DefaultOptions,
      Options(TRUE, TRUE, FALSE, FALSE),
      Options(TRUE, FALSE, FALSE, FALSE),
      Options(FALSE, FALSE, FALSE, FALSE) }

\* all sequences over S of length at most n
SeqsUpTo(S, n) == UNION { [1..k -> S] : k \in 0..n }

OptEnv ==
    [ v \in {"SystemRoot", "WINDIR", "SystemDrive", "USERPROFILE"} |->
        CASE v = "SystemRoot"  -> "C:\\Windows"
          [] v = "WINDIR"      -> "C:\\Windows"
          [] v = "SystemDrive" -> "C:"
          [] v = "USERPROFILE" -> "C:\\Users\\Jo" ]

NoResult == [Original  |-> PathInfo("", <<>>), Optimized |-> PathInfo("", <<>>),
             Changes   |-> <<>>, Metrics |-> ZeroMetrics]

NoSubst == <<"", FALSE>>

NoMsg == [kind |-> "none"]

\* the Model's selection state as New() leaves it: every list empty, every
\* index 0, no input under way
NoSel ==
    [menuIndex |-> 0, backups |-> <<>>, backupIndex |-> 0,
     junctions |-> <<>>, suggestions |-> <<>>, junctionIndex |-> 0,
     junctionName |-> "", junctionTarget |-> "", junctionInputMode |-> 0,
     pathExtCurrent |-> <<>>, pathExtOpt |-> <<>>, pathExtChanged |-> FALSE,
     pathExtList |-> <<>>, pathExtIndex |-> 0, pathExtEditing |-> FALSE,
     settingsIndex |-> 0, hotPathIndex |-> 0, hotPathAdding |-> FALSE, hotPathInput |-> "",
     optimizerScope |-> "both"]

NoBackupInfo == [Filename |-> <<>>]

NoOp == [op |-> "none", calls |-> <<>>, err |-> "", created |-> <<>>, removed |-> {},
         file |-> NoBackupInfo]

\* DefaultConfig().MaxBackups
DefaultMaxBackups == 10

\* no library call under way
CallIdle == callPc = "idle" /\ callArgs = <<>> /\ callRet = <<>>

\* Model's loading fields as New leaves them
NoLoading == [Dots |-> 0, Current |-> 0, Total |-> 0, Item |-> ""]

\* no analysis under way, nothing in the progress channel
ProgIdle ==
    /\ progressChan = <<>> /\ taskPc = "idle" /\ taskAt = 0 /\ totalEntries = 0
    /\ loading = NoLoading /\ listening = FALSE

\* no UI session: nothing in the backup directory, nothing pending
BkIdle ==
    /\ clock = 0 /\ files = {} /\ userPath = "" /\ systemPath = "" /\ pathExt = <<>>
    /\ isAdmin = FALSE /\ maxBackups = DefaultMaxBackups /\ screen = "none" /\ msg = NoMsg
    /\ mErr = "" /\ mBackupInfo = NoBackupInfo /\ last = NoOp /\ names = <<>> /\ ops = 0
    /\ keysDropped = 0 /\ sel = NoSel /\ links = {}

OptInit ==
    /\ optPc = "start"
    /\ \/ \E es \in SeqsUpTo(EntryPool, MaxEntries) : pathStr = JoinPath(es)
       \/ pathStr \in RawPathPool
    /\ opts \in OptionSets
    /\ hotPaths \in SeqsUpTo(HotPool, MaxHotPaths)
    /\ envVars = OptEnv
    /\ entries = <<>>
    /\ idx = 1
    /\ proc = newEntryProcessor
    /\ survivors = <<>>
    /\ result = NoResult
    /\ substOut = NoSubst
    /\ BkIdle
    /\ CallIdle
    /\ ProgIdle

\* OptimizeWithProgress up to the loop: parse, fill result.Original
OptimizeStart ==
    /\ optPc = "start"
    /\ entries' = ParsePath(pathStr)
    /\ result' = [NoResult EXCEPT !.Original = PathInfo(pathStr, ParsePath(pathStr))]
    /\ proc' = newEntryProcessor
    /\ survivors' = <<>>
    /\ idx' = 1
    /\ optPc' = "loop"
    /\ UNCHANGED <<pathStr, opts, hotPaths, envVars>>
    /\ UNCHANGED <<substOut, bkVars, callVars, progVars>>

\* one iteration of the range loop: processEntry, append when ok
ProcessEntry ==
    /\ optPc = "loop"
    /\ idx <= Len(entries)
    /\ LET r == processEntry(proc, opts, envVars, entries[idx]) IN
         /\ proc' = r[1]
         /\ survivors' = IF r[3] THEN Append(survivors, r[2]) ELSE survivors
    /\ idx' = idx + 1
    /\ UNCHANGED <<optPc, pathStr, opts, hotPaths, envVars, entries, result>>
    /\ UNCHANGED <<substOut, bkVars, callVars, progVars>>

\* after the loop: hot paths, result.Optimized, the percentage
OptimizeFinish ==
    /\ optPc = "loop"
    /\ idx > Len(entries)
    /\ LET optimized == IF Len(hotPaths) > 0 THEN applyHotPaths(survivors, hotPaths)
                        ELSE survivors
           raw == JoinPath(optimized)
       IN  result' = [Original  |-> result.Original,
                      Optimized |-> PathInfo(raw, optimized),
                      Changes   |-> proc.Changes,
                      Metrics   |-> [proc.Metrics EXCEPT !.PercentageSaved =
                                       PercentageSaved(result.Original.Length, Len(raw))]]
    /\ optPc' = "done"
    /\ UNCHANGED <<pathStr, opts, hotPaths, envVars, entries, idx, proc, survivors>>
    /\ UNCHANGED <<substOut, bkVars, callVars, progVars>>

OptNext == OptimizeStart \/ ProcessEntry \/ OptimizeFinish

SpecOptimize == OptInit /\ [][OptNext]_vars


(***************************************************************************)
(* Properties of the optimization pipeline                                 *)
(***************************************************************************)

\* entry k has the normalized form of an earlier entry of the run
EarlierSame(k) ==
    \E j \in 1..(k - 1) : NormalizePath(entries[j]) = NormalizePath(entries[k])

\* entry k is one the dead-path pass removes
DeadEntry(k) ==
    /\ opts.RemoveDeadPaths
    /\ ~ContainsChar(entries[k], "%")
    /\ NormalizePath(entries[k]) \notin FsDirs

\* the entries at the indices of S up to n, in PATH order
RECURSIVE EntriesAt(_, _, _)
EntriesAt(S, k, n) ==
    IF k > n THEN <<>>
    ELSE (IF k \in S THEN <<entries[k]>> ELSE <<>>) \o EntriesAt(S, k + 1, n)

IsDupChange(c) == c.Type = "duplicate"

NoRewrite == ~opts.ShortenPaths /\ ~opts.SubstituteVars

PairwiseDistinctNorms(es) ==
    \A i, j \in 1..Len(es) : i # j => NormalizePath(es[i]) # NormalizePath(es[j])

\* C1: with duplicate removal enabled, after any number of processed entries
\* the duplicate changes are exactly the entries that have the normalized
\* form of an earlier entry, one change each and in PATH order, the first
\* entry of a form is never among them, duplicatesRemoved counts them, none
\* of them is in the optimized list, and what survives has pairwise
\* different normalized forms (entries differing in case or trailing
\* separator collapse to one)
C1_DuplicatesDropped ==
    (optPc \in {"loop", "done"} /\ opts.RemoveDuplicates) =>
        LET n    == idx - 1
            D    == { k \in 1..n : EarlierSame(k) }
            Dead == { k \in (1..n) \ D : DeadEntry(k) }
            dups == SelectSeq(proc.Changes, IsDupChange)
        IN  /\ Len(dups) = Cardinality(D)
            /\ [ i \in 1..Len(dups) |-> dups[i].Original ] = EntriesAt(D, 1, n)
            /\ proc.Metrics.DuplicatesRemoved = Cardinality(D)
            /\ Len(survivors) = n - Cardinality(D) - Cardinality(Dead)
            /\ NoRewrite => /\ survivors = EntriesAt((1..n) \ (D \cup Dead), 1, n)
                            /\ PairwiseDistinctNorms(survivors)
            /\ optPc = "done" =>
                 /\ result.Metrics.DuplicatesRemoved = Cardinality(D)
                 /\ SelectSeq(result.Changes, IsDupChange) = dups
                 /\ result.Optimized.Count <= n - Cardinality(D)
                 /\ NoRewrite => PairwiseDistinctNorms(result.Optimized.Entries)

\* C1 witness: a finished run that collapsed entries differing only in case
\* and trailing separator
C1_Witness ==
    /\ optPc = "done"
    /\ opts.RemoveDuplicates
    /\ entries = <<"C:\\a", "c:\\A\\", "C:\\a">>
    /\ hotPaths = <<>>
    /\ result.Optimized.Entries = <<"C:\\a">>
    /\ result.Metrics.DuplicatesRemoved = 2

\* the indices of the hot paths with the normalized form of entry e
HotIndices(e) ==
    { j \in 1..Len(hotPaths) : NormalizePath(hotPaths[j]) = NormalizePath(e) }

IsRegular(e) == HotIndices(e) = {}

\* C2: the optimized list of a finished run is, with hot paths configured,
\* the entries that match a hot path by normalized form, in the order the
\* hot paths are declared, followed by all other surviving entries in their
\* order; every hot path matching a surviving entry is in front; without hot
\* paths it is the surviving entries in their order.  [A,B,C,D] with hot
\* paths [C,A] gives [C,A,B,D].
C2_HotPathsFirst ==
    /\ applyHotPaths(<<"C:\\A", "C:\\B", "C:\\C", "C:\\D">>, <<"C:\\C", "C:\\A">>)
         = <<"C:\\C", "C:\\A", "C:\\B", "C:\\D">>
    /\ optPc = "done" =>
        LET out     == result.Optimized.Entries
            regular == SelectSeq(survivors, IsRegular)
            h       == Len(out) - Len(regular)
        IN  IF Len(hotPaths) = 0
            THEN /\ out = survivors
                 /\ NoRewrite /\ ~opts.RemoveDuplicates /\ ~opts.RemoveDeadPaths
                      => out = entries
            ELSE /\ h >= 0
                 /\ SubSeq(out, h + 1, Len(out)) = regular
                 /\ \A i \in 1..h :
                      /\ ~IsRegular(out[i])
                      /\ \E k \in 1..Len(survivors) : survivors[k] = out[i]
                 /\ \A i, j \in 1..h : i < j =>
                      \E a \in HotIndices(out[i]), b \in HotIndices(out[j]) : a <= b
                 /\ \A k \in 1..Len(survivors) : ~IsRegular(survivors[k]) =>
                      \E i \in 1..h : NormalizePath(out[i]) = NormalizePath(survivors[k])

\* C2 witness: two hot paths declared in the order opposite to the PATH order
\* of the entries they match
C2_Witness ==
    /\ optPc = "done"
    /\ hotPaths = <<"%windir%\\system32", "C:\\A">>
    /\ entries = <<"C:\\a", "C:\\gone", "%windir%\\System32">>
    /\ result.Optimized.Entries = <<"%windir%\\System32", "C:\\a", "C:\\gone">>

\* C12: an entry that contains % is never dropped as a dead path and never
\* altered by the shorten or substitute passes: unless it is removed as a
\* duplicate, no change but a duplicate's is recorded for it and it is, character for
\* character, an entry of the optimized list of the finished run.
C12_PercentEntriesVerbatim ==
    optPc = "done" =>
        \A k \in 1..Len(entries) :
            (ContainsChar(entries[k], "%") /\ ~(opts.RemoveDuplicates /\ EarlierSame(k))) =>
                /\ \A i \in 1..Len(result.Changes) :
                      result.Changes[i].Original = entries[k] => IsDupChange(result.Changes[i])
                /\ \E i \in 1..Len(result.Optimized.Entries) :
                      result.Optimized.Entries[i] = entries[k]

\* the number of times e occurs in es
Occurrences(es, e) == Cardinality({ k \in 1..Len(es) : es[k] = e })

\* C3: hot-path prioritization only reorders: the optimized list has as many
\* entries as the list given to applyHotPaths and holds every entry as often
C3_HotPathsOnlyReorder ==
    optPc = "done" =>
        /\ Len(result.Optimized.Entries) = Len(survivors)
        /\ \A k \in 1..Len(survivors) :
             Occurrences(result.Optimized.Entries, survivors[k])
               = Occurrences(survivors, survivors[k])

\* C21: with the shortening and substitution passes off (duplicate and
\* dead-path removal alone) the optimized PATH string is never longer than
\* the original one
C21_RemovalNeverLengthens ==
    (optPc = "done" /\ ~opts.ShortenPaths /\ ~opts.SubstituteVars) =>
        /\ result.Original.Length = Len(pathStr)
        /\ result.Optimized.Length = Len(result.Optimized.Raw)
        /\ result.Optimized.Length <= result.Original.Length

\* a padded PATH with a duplicate and a dead entry, both removed, and a hot
\* path that is not in the PATH
C21_Witness ==
    /\ optPc = "done"
    /\ opts = Options(TRUE, TRUE, FALSE, FALSE)
    /\ pathStr \in RawPathPool
    /\ hotPaths = <<"%windir%\\system32">>
    /\ result.Optimized.Raw = "C:\\a"
    /\ result.Metrics.DuplicatesRemoved = 1
    /\ result.Metrics.DeadPathsRemoved = 1
    /\ result.Optimized.Length < result.Original.Length


(***************************************************************************)
(* Backups, restore, apply: the registry, the backup directory and the     *)
(* handlers of the UI that write to them.  A handler is one action; the    *)
(* calls it makes are recorded, in order, in last.calls.                   *)
(***************************************************************************)

MaxOps == 2
MaxClock == 1
MaxBackupsBound == 2

\* the name CreateBackup gives the file: path_<YYYYMMDD_HHMMSS>_<suffix>.json,
\* the time cut to the second
Filename(t, suffix) == <<"path", t, suffix>>

\* the Backup that CreateBackup serializes
Backup(t, suffix, sys, usr) ==
    [Filename |-> Filename(t, suffix), Timestamp |-> t, Suffix |-> suffix,
     SystemPath |-> sys, UserPath |-> usr]

\* os.WriteFile of a backup: a file of the same name is replaced
WriteFile(fs, b) == { f \in fs : f.Filename # b.Filename } \cup {b}

\* the tails backups[MaxBackups:] that ListBackups' sort can produce:
\* sort.Slice orders by timestamp, newest first, and is free in the
\* order of backups of the same second
OldestBeyond(fs, max) ==
    IF Cardinality(fs) <= max THEN { {} }
    ELSE { D \in SUBSET fs :
             /\ Cardinality(D) = Cardinality(fs) - max
             /\ \A d \in D : \A k \in fs \ D : d.Timestamp <= k.Timestamp }

\* EnforceBackupLimit: the sets of files it can remove; DeleteBackup is
\* best effort, each os.Remove may fail
EnforceBackupLimit(fs, max) == UNION { SUBSET D : D \in OldestBeyond(fs, max) }

\* what CreateBackup did: the file written (or none), the directory after
\* the write and after EnforceBackupLimit removed del
Created(b, fs, del) ==
    [ok |-> TRUE, info |-> [Filename |-> b.Filename], files |-> fs \ del, removed |-> del]

NotCreated(fs) ==
    [ok |-> FALSE, info |-> NoBackupInfo, files |-> fs, removed |-> {}]

\* GetPathRaw as CreateBackup uses it: the value in the registry, or ""
\* when the shell call fails (CreateBackup drops the error)
GetPathRaw(value) == { value, "" }

\* CreateBackup once the backup b is built: the write, then EnforceBackupLimit
WriteBackup(b, fs, max) ==
    { Created(b, WriteFile(fs, b), del) : del \in EnforceBackupLimit(WriteFile(fs, b), max) }

\* CreateBackup(suffix) at time t, with the registry holding sys and usr:
\* every outcome, a failed EnsureBackupDir / WriteFile included
CreateBackup(fs, t, suffix, sys, usr, max) ==
    { NotCreated(fs) } \cup
    UNION { WriteBackup(Backup(t, suffix, s, u), fs, max) :
              s \in GetPathRaw(sys), u \in GetPathRaw(usr) }

\* the call CreateBackup leaves in the record
BackupCall(c) == IF c.ok THEN <<"CreateBackup">> ELSE <<"CreateBackup failed">>

\* the names written so far, with the one of c when it wrote
NamesAfter(ns, c) == IF c.ok THEN Append(ns, c.info.Filename) ELSE ns

\* the outcome of a run of SetPath calls: the calls, the registry after, the error
Writes(calls, usr, sys, err) == [calls |-> calls, user |-> usr, system |-> sys, err |-> err]

\* a restore that writes the System PATH for any caller
RestoreSystemAnyCaller(b, admin, w, sOk) ==
    IF b.SystemPath # ""
    THEN IF sOk
         THEN Writes(w.calls \o <<"SetPath System", "BroadcastEnvChange">>,
                     w.user, b.SystemPath, "")
         ELSE Writes(w.calls \o <<"SetPath System failed">>, w.user, w.system,
                     "failed to restore system PATH")
    ELSE Writes(w.calls \o <<"BroadcastEnvChange">>, w.user, w.system, "")

\* RestoreBackup from "Restore system PATH if admin" on, after the calls so far
RestoreSystem(b, admin, w, sOk) ==
    IF admin /\ b.SystemPath # ""
    THEN IF sOk
         THEN Writes(w.calls \o <<"SetPath System", "BroadcastEnvChange">>,
                     w.user, b.SystemPath, "")
         ELSE Writes(w.calls \o <<"SetPath System failed">>, w.user, w.system,
                     "failed to restore system PATH")
    ELSE Writes(w.calls \o <<"BroadcastEnvChange">>, w.user, w.system, "")

\* a RestoreBackup that, when the System PATH write fails, writes the User
\* PATH back to what it was
RestoreWritesRollingBack(b, admin, usr, sys, uOk, sOk) ==
    IF b.UserPath # ""
    THEN IF uOk
         THEN IF admin /\ b.SystemPath # "" /\ ~sOk
              THEN Writes(<<"SetPath User", "SetPath System failed", "SetPath User">>,
                          usr, sys, "failed to restore system PATH")
              ELSE RestoreSystem(b, admin, Writes(<<"SetPath User">>, b.UserPath, sys, ""), sOk)
         ELSE Writes(<<"SetPath User failed">>, usr, sys, "failed to restore user PATH")
    ELSE RestoreSystem(b, admin, Writes(<<>>, usr, sys, ""), sOk)

\* RestoreBackup after the pre-restore backup: the writes of the backup b
RestoreWrites(b, admin, usr, sys, uOk, sOk) ==
    IF b.UserPath # ""
    THEN IF uOk
         THEN RestoreSystem(b, admin, Writes(<<"SetPath User">>, b.UserPath, sys, ""), sOk)
         ELSE Writes(<<"SetPath User failed">>, usr, sys, "failed to restore user PATH")
    ELSE RestoreSystem(b, admin, Writes(<<>>, usr, sys, ""), sOk)

ScopeUser(scope) == scope \in {"both", "user"}

ScopeSystem(scope) == scope \in {"both", "system"}

\* applyOptimizationCmd from the System write on
ApplySystem(scope, admin, optSys, w, sOk) ==
    IF admin /\ ScopeSystem(scope) /\ w.err = ""
    THEN IF sOk
         THEN Writes(w.calls \o <<"SetPath System", "BroadcastEnvChange">>, w.user, optSys, "")
         ELSE Writes(w.calls \o <<"SetPath System failed">>, w.user, w.system, "SetPath System")
    ELSE IF w.err = "" THEN Writes(w.calls \o <<"BroadcastEnvChange">>, w.user, w.system, "")
         ELSE w

\* applyOptimizationCmd after the pre-optimize backup
ApplyWrites(scope, admin, optUsr, optSys, usr, sys, uOk, sOk) ==
    IF ScopeUser(scope)
    THEN IF uOk
         THEN ApplySystem(scope, admin, optSys, Writes(<<"SetPath User">>, optUsr, sys, ""), sOk)
         ELSE ApplySystem(scope, admin, optSys,
                          Writes(<<"SetPath User failed">>, usr, sys, "SetPath User"), sOk)
    ELSE ApplySystem(scope, admin, optSys, Writes(<<>>, usr, sys, ""), sOk)


\* the values the registry and the analysis hold in the runs
OptimizedUserRaw == "C:\\b"

OptimizedSystemRaw == "C:\\Win"

OptimizedPathExt == ".EXE;.COM"

OptIdle ==
    /\ optPc = "idle" /\ pathStr = "" /\ opts = DefaultOptions /\ hotPaths = <<>>
    /\ envVars = OptEnv /\ entries = <<>> /\ idx = 1 /\ proc = newEntryProcessor
    /\ survivors = <<>> /\ result = NoResult /\ substOut = NoSubst

\* NewModel, with the registry, the configuration and the backup directory
\* as the session finds them
BkInit ==
    /\ OptIdle
    /\ CallIdle
    /\ ProgIdle
    /\ clock = 0
    /\ files = {}
    /\ userPath = "C:\\a"
    /\ systemPath = "C:\\Windows"
    /\ pathExt = [User |-> "", Machine |-> ".COM;.EXE"]
    /\ isAdmin \in BOOLEAN
    /\ maxBackups \in 1..MaxBackupsBound
    /\ screen = "ScreenMenu"
    /\ msg = NoMsg
    /\ mErr = ""
    /\ mBackupInfo = NoBackupInfo
    /\ last = NoOp
    /\ names = <<>>
    /\ ops = 0
    /\ keysDropped = 0 /\ sel = NoSel /\ links = {}

\* Update, case tea.KeyMsg, with the handlers open to a key that is not
\* ctrl+c (ctrl+c ends the program and is not followed): no handler is
\* reached while the screen is ScreenLoading
KeyHandledWhileLoading == ops < MaxOps

KeyHandled == screen # "ScreenLoading" /\ ops < MaxOps

\* Update, case tea.KeyMsg, on ScreenLoading: return m, nil
UpdateKeyWhileLoading ==
    /\ screen = "ScreenLoading"
    /\ ops < MaxOps
    /\ ops' = ops + 1
    /\ keysDropped' = keysDropped + 1
    /\ UNCHANGED <<clock, files, userPath, systemPath, pathExt, isAdmin, maxBackups,
                   screen, msg, mErr, mBackupInfo, last, names, sel, links>>
    /\ UNCHANGED <<optVars, callVars, progVars>>

\* the record of an operation
Op(name, calls, err, c, file) ==
    [op |-> name, calls |-> calls, err |-> err, created |-> c.info.Filename,
     removed |-> c.removed, file |-> file]

\* time passes into the next second
Tick ==
    /\ clock < MaxClock
    /\ clock' = clock + 1
    /\ UNCHANGED <<files, userPath, systemPath, pathExt, isAdmin, maxBackups,
                   screen, msg, mErr, mBackupInfo, last, names, ops>>
    /\ UNCHANGED <<optVars, callVars, progVars, keysDropped, sel, links>>

\* Model.handleBackupCreate: CreateBackup("manual")
HandleBackupCreate ==
    /\ KeyHandled
    /\ \E c \in CreateBackup(files, clock, "manual", systemPath, userPath, maxBackups) :
         /\ files' = c.files
         /\ names' = NamesAfter(names, c)
         /\ last' = Op("handleBackupCreate", BackupCall(c),
                       IF c.ok THEN "" ELSE "Backup failed", c, NoBackupInfo)
    /\ ops' = ops + 1
    /\ UNCHANGED <<clock, userPath, systemPath, pathExt, isAdmin, maxBackups,
                   screen, msg, mErr, mBackupInfo>>
    /\ UNCHANGED <<optVars, callVars, progVars, keysDropped, sel, links>>

\* RestoreBackup once LoadBackup returned b, CreateBackup("pre-restore")
\* ended as c and the writes as w; then handleBackupConfirmKey's branches
Restored(b, c, w) ==
    /\ files' = c.files
    /\ names' = NamesAfter(names, c)
    /\ userPath' = w.user
    /\ systemPath' = w.system
    /\ last' = Op("RestoreBackup", <<"LoadBackup">> \o BackupCall(c) \o w.calls, w.err, c, b)
    /\ mErr' = IF w.err # "" THEN w.err ELSE mErr
    /\ screen' = IF w.err # "" THEN screen ELSE "ScreenBackupDone"

\* Model.handleBackupConfirmKey "y" on ScreenBackupConfirmRestore:
\* RestoreBackup(m.backups[m.backupIndex].Filename, m.isAdmin)
HandleBackupRestore ==
    /\ KeyHandled
    /\ \E b \in files :
         \/ /\ last' = Op("RestoreBackup", <<"LoadBackup failed">>, "load", NotCreated(files), b)
            /\ mErr' = "load"
            /\ UNCHANGED <<files, names, userPath, systemPath, screen>>
         \/ \E c \in CreateBackup(files, clock, "pre-restore", systemPath, userPath, maxBackups) :
              \E uOk \in BOOLEAN, sOk \in BOOLEAN :
                Restored(b, c, RestoreWrites(b, isAdmin, userPath, systemPath, uOk, sOk))
    /\ ops' = ops + 1
    /\ UNCHANGED <<clock, pathExt, isAdmin, maxBackups, msg, mBackupInfo>>
    /\ UNCHANGED <<optVars, callVars, progVars, keysDropped, sel, links>>

\* Model.handleBackupConfirmKey "y" on ScreenBackupConfirmDelete: DeleteBackup
HandleBackupDelete ==
    /\ KeyHandled
    /\ \E b \in files : \E ok \in BOOLEAN :
         /\ files' = IF ok THEN files \ {b} ELSE files
         /\ last' = Op("DeleteBackup", <<IF ok THEN "Remove" ELSE "Remove failed">>,
                       IF ok THEN "" ELSE "Delete failed", NotCreated(files), b)
    /\ screen' = "ScreenBackup"
    /\ ops' = ops + 1
    /\ UNCHANGED <<clock, userPath, systemPath, pathExt, isAdmin, maxBackups,
                   msg, mErr, mBackupInfo, names>>
    /\ UNCHANGED <<optVars, callVars, progVars, keysDropped, sel, links>>


\* Model.handleOptimizerConfirmKey "y": the screen is ScreenLoading and
\* applyOptimizationCmd(m.analysis, m.optimizerScope, m.isAdmin) is started
HandleOptimizerConfirm ==
    /\ KeyHandled
    /\ \E scope \in {"both", "system", "user"} :
         msg' = [kind |-> "applyOptimizationCmd", scope |-> scope, isAdmin |-> isAdmin]
    /\ screen' = "ScreenLoading"
    /\ ops' = ops + 1
    /\ UNCHANGED <<clock, files, userPath, systemPath, pathExt, isAdmin, maxBackups,
                   mErr, mBackupInfo, last, names>>
    /\ UNCHANGED <<optVars, callVars, progVars, keysDropped, sel, links>>

\* applyOptimizationCmd once CreateBackup("pre-optimize") ended as c and
\* the writes as w: it returns applyCompleteMsg{backup, err}
Applied(c, w) ==
    /\ files' = c.files
    /\ names' = NamesAfter(names, c)
    /\ userPath' = w.user
    /\ systemPath' = w.system
    /\ last' = Op("applyOptimizationCmd", BackupCall(c) \o w.calls, w.err, c, NoBackupInfo)
    /\ msg' = [kind |-> "applyCompleteMsg", backup |-> c.info, err |-> w.err]

\* the command started by HandleOptimizerConfirm runs
ApplyOptimizationCmd ==
    /\ msg.kind = "applyOptimizationCmd"
    /\ \E c \in CreateBackup(files, clock, "pre-optimize", systemPath, userPath, maxBackups) :
         \E uOk \in BOOLEAN, sOk \in BOOLEAN :
           Applied(c, ApplyWrites(msg.scope, msg.isAdmin, OptimizedUserRaw, OptimizedSystemRaw,
                                  userPath, systemPath, uOk, sOk))
    /\ UNCHANGED <<clock, pathExt, isAdmin, maxBackups, screen, mErr, mBackupInfo, ops>>
    /\ UNCHANGED <<optVars, callVars, progVars, keysDropped, sel, links>>

\* Model.Update, case applyCompleteMsg
UpdateApplyComplete ==
    /\ msg.kind = "applyCompleteMsg"
    /\ IF msg.err # ""
       THEN /\ mErr' = msg.err
            /\ screen' = "ScreenOptimizerPreview"
            /\ UNCHANGED mBackupInfo
       ELSE /\ mBackupInfo' = msg.backup
            /\ screen' = "ScreenOptimizerDone"
            /\ UNCHANGED mErr
    /\ msg' = NoMsg
    /\ UNCHANGED <<clock, files, userPath, systemPath, pathExt, isAdmin, maxBackups,
                   last, names, ops>>
    /\ UNCHANGED <<optVars, callVars, progVars, keysDropped, sel, links>>

\* ApplyPathExt(value, scope): the registry after, and the calls made
ApplyPathExt(pe, value, scope, ok) ==
    IF ok
    THEN [pathExt |-> [pe EXCEPT ![IF scope = "System" THEN "Machine" ELSE "User"] = value],
          calls |-> <<"SetEnvironmentVariable PATHEXT", "BroadcastEnvChange">>, err |-> ""]
    ELSE [pathExt |-> pe, calls |-> <<"SetEnvironmentVariable PATHEXT failed">>,
          err |-> "SetEnvironmentVariable PATHEXT"]

\* handlePathExtConfirmKey after ApplyPathExt returned r
PathExtApplied(r) ==
    /\ pathExt' = r.pathExt
    /\ last' = Op("ApplyPathExt", r.calls, r.err, NotCreated(files), NoBackupInfo)
    /\ mErr' = IF r.err # "" THEN r.err ELSE mErr
    /\ screen' = IF r.err # "" THEN screen ELSE "ScreenPathExtDone"

\* Model.handlePathExtConfirmKey "y" with an optimization to apply
HandlePathExtConfirm ==
    /\ KeyHandled
    /\ \E ok \in BOOLEAN :
         PathExtApplied(ApplyPathExt(pathExt, OptimizedPathExt,
                                     IF isAdmin THEN "System" ELSE "User", ok))
    /\ ops' = ops + 1
    /\ UNCHANGED <<clock, files, userPath, systemPath, isAdmin, maxBackups,
                   msg, mBackupInfo, names>>
    /\ UNCHANGED <<optVars, callVars, progVars, keysDropped, sel, links>>

\* Model.handleSettingsKey "+", "enter" or "-" on the Max Backups row;
\* SaveConfig writes the configuration
HandleSettingsKey ==
    /\ KeyHandled
    /\ \E key \in {"+", "-"} :
         /\ key = "+" => maxBackups < MaxBackupsBound
         /\ maxBackups' = IF key = "+" THEN maxBackups + 1
                          ELSE IF maxBackups > 1 THEN maxBackups - 1 ELSE maxBackups
    /\ last' = Op("handleSettingsKey", <<"SaveConfig">>, "", NotCreated(files), NoBackupInfo)
    /\ ops' = ops + 1
    /\ UNCHANGED <<clock, files, userPath, systemPath, pathExt, isAdmin,
                   screen, msg, mErr, mBackupInfo, names>>
    /\ UNCHANGED <<optVars, callVars, progVars, keysDropped, sel, links>>

BkNext ==
    \/ Tick
    \/ HandleBackupCreate
    \/ HandleBackupRestore
    \/ HandleBackupDelete
    \/ HandleOptimizerConfirm
    \/ ApplyOptimizationCmd
    \/ UpdateApplyComplete
    \/ HandlePathExtConfirm
    \/ HandleSettingsKey
    \/ UpdateKeyWhileLoading

SpecBackup == BkInit /\ [][BkNext]_vars


(***************************************************************************)
(* Properties of backup, restore and apply                                 *)
(***************************************************************************)

Has(calls, c) == \E i \in 1..Len(calls) : calls[i] = c

\* a call that changed PATH or PATHEXT in the registry
IsWrite(c) == c \in {"SetPath User", "SetPath System", "SetEnvironmentVariable PATHEXT"}

\* C4: every operation that writes PATH or PATHEXT has created a backup
\* before its first write
C4_BackupBeforeWrite ==
    \A i \in 1..Len(last.calls) :
        IsWrite(last.calls[i]) => \E j \in 1..(i - 1) : last.calls[j] = "CreateBackup"

\* the last operation is a RestoreBackup whose LoadBackup succeeded
RestoreLoaded(l) == l.op = "RestoreBackup" /\ Has(l.calls, "LoadBackup")

\* C5 as stated: a RestoreBackup of a backup that loads attempts the User
\* PATH write whatever the backup holds and whoever calls, the System PATH
\* write only for an admin, and ends, when no write failed, with the broadcast
C5_UserPathUnconditional ==
    RestoreLoaded(last) =>
        /\ Has(last.calls, "SetPath User") \/ Has(last.calls, "SetPath User failed")
        /\ Has(last.calls, "SetPath System") => isAdmin
        /\ last.err = "" => last.calls[Len(last.calls)] = "BroadcastEnvChange"

UserAttempted(cs) == Has(cs, "SetPath User") \/ Has(cs, "SetPath User failed")

SystemAttempted(cs) == Has(cs, "SetPath System") \/ Has(cs, "SetPath System failed")

\* what a RestoreBackup step that loaded the backup b and made the calls cs
\* did to the registry, and which calls it made
RestoreEffect(b, cs, err) ==
    /\ UserAttempted(cs) <=> b.UserPath # ""
    /\ SystemAttempted(cs) <=>
         (isAdmin /\ b.SystemPath # "" /\ ~Has(cs, "SetPath User failed"))
    /\ userPath' = IF Has(cs, "SetPath User") THEN b.UserPath ELSE userPath
    /\ systemPath' = IF Has(cs, "SetPath System") THEN b.SystemPath ELSE systemPath
    /\ err = "" <=> ~(Has(cs, "SetPath User failed") \/ Has(cs, "SetPath System failed"))
    /\ Has(cs, "BroadcastEnvChange") <=> err = ""
    /\ err = "" => cs[Len(cs)] = "BroadcastEnvChange"
    /\ \A i \in 1..Len(cs) : cs[i] = "BroadcastEnvChange" => i = Len(cs)

\* C5, amended: RestoreBackup of a backup that loads writes the backup's User
\* PATH exactly when that value is not empty (admin or not), then the System
\* PATH exactly when isAdmin holds, that value is not empty and the User
\* write did not fail; a value not written stays as it was; the broadcast is
\* triggered, last, exactly when no attempted write failed
C5_RestoreWritesNonEmpty ==
    [][(ops' = ops + 1 /\ RestoreLoaded(last'))
         => RestoreEffect(last'.file, last'.calls, last'.err)]_vars

\* C5 witness: an admin restored a backup, both values written, then the broadcast
C5_Witness ==
    /\ isAdmin
    /\ last.op = "RestoreBackup"
    /\ last.calls = <<"LoadBackup", "CreateBackup", "SetPath User", "SetPath System",
                      "BroadcastEnvChange">>
    /\ userPath = last.file.UserPath
    /\ systemPath = last.file.SystemPath

\* C15: a RestoreBackup whose User PATH write succeeds and whose System PATH
\* write then fails returns the error of the System write and rolls nothing
\* back: it makes no further call (no second User write, no broadcast), the
\* User PATH is the backup's value, the System PATH is what it was, and the
\* UI keeps the error.
C15_NoRollbackOnPartialRestore ==
    [][(/\ ops' = ops + 1
        /\ last'.op = "RestoreBackup"
        /\ Has(last'.calls, "SetPath User")
        /\ Has(last'.calls, "SetPath System failed"))
         => /\ last'.err = "failed to restore system PATH"
            /\ mErr' = last'.err
            /\ last'.calls[Len(last'.calls)] = "SetPath System failed"
            /\ Cardinality({ i \in 1..Len(last'.calls) : last'.calls[i] = "SetPath User" }) = 1
            /\ ~Has(last'.calls, "BroadcastEnvChange")
            /\ userPath' = last'.file.UserPath
            /\ systemPath' = systemPath]_vars

\* C15 witness: an admin restored the backup taken before an optimization
\* was applied; the User PATH is back to the backup's value, the System
\* write failed and the System PATH is still the optimized one
C15_Witness ==
    /\ isAdmin
    /\ last.op = "RestoreBackup"
    /\ last.calls = <<"LoadBackup", "CreateBackup", "SetPath User", "SetPath System failed">>
    /\ last.file.UserPath = "C:\\a" /\ last.file.SystemPath = "C:\\Windows"
    /\ userPath = "C:\\a"
    /\ systemPath = OptimizedSystemRaw
    /\ mErr = "failed to restore system PATH"

\* C6: when the pre-optimize backup cannot be created the apply still
\* writes, and the applyCompleteMsg carries the failure
C6_BackupFailurePropagated ==
    (msg.kind = "applyCompleteMsg" /\ Has(last.calls, "CreateBackup failed")) =>
        /\ Len(last.calls) > 1
        /\ msg.err # ""

\* a backup file with the name n is in the backup directory
Listed(n) == \E f \in files : f.Filename = n

\* C7: when an operation's CreateBackup returned successfully, the backup
\* directory holds at most maxBackups backups, the one just created among
\* them, and every backup removed is at most as new as every backup kept
C7_RetentionKeepsNewest ==
    last.created # <<>> =>
        /\ Cardinality(files) <= maxBackups
        /\ Listed(last.created)
        /\ \A d \in last.removed : \A k \in files : d.Timestamp <= k.Timestamp

\* C8: no two successful CreateBackup calls wrote the same filename
C8_UniqueFilenames ==
    \A i, j \in 1..Len(names) : i # j => names[i] # names[j]


(***************************************************************************)
(* SubstituteEnvVars as a function of the path and the environment         *)
(***************************************************************************)

MaxTailLen == 2

\* the paths: a directory, in several spellings, followed by a few characters
SubstPrefixes ==
    { "C:\\Windows", "c:\\WINDOWS", "C:\\Users\\Jo", "C:\\Users\\JO~1",
      "C:\\Users\\Jo\\jdk", "D:\\x", "", "%WINDIR%" }

TailChars == { "\\", "/", "2", "b" }

\* all strings over TailChars of length at most n
RECURSIVE Tails(_)
Tails(n) ==
    IF n = 0 THEN { "" }
    ELSE Tails(n - 1) \cup { t \o c : t \in { u \in Tails(n - 1) : Len(u) = n - 1 },
                                      c \in TailChars }

\* an environment: the variables named in ns, with the values of vs
Env(ns, vs) == [ v \in ns |-> vs[v] ]

EnvValues ==
    [ v \in { "SystemRoot", "WINDIR", "GOROOT", "SystemDrive", "USERPROFILE", "JAVA_HOME",
              "GOPATH", "NVM_HOME" } |->
        CASE v = "SystemRoot"  -> "C:\\Windows"
          [] v = "WINDIR"      -> "C:\\Windows"
          [] v = "GOROOT"      -> "c:\\windows"
          [] v = "SystemDrive" -> "C:"
          [] v = "USERPROFILE" -> "C:\\Users\\Jo"
          [] v = "JAVA_HOME"   -> "C:\\Users\\Jo\\jdk"
          [] v = "GOPATH"      -> "C:\\Windows\\"
          [] v = "NVM_HOME"    -> "" ]

\* the environments: a usual one; one where variables of equal name length
\* hold the same directory; one with a value that ends in a separator and an
\* empty value; none of the variables set
SubstEnvs ==
    { Env({"SystemRoot", "WINDIR", "SystemDrive", "USERPROFILE", "JAVA_HOME"}, EnvValues),
      Env({"SystemRoot", "WINDIR", "GOROOT", "USERPROFILE"}, EnvValues),
      Env({"GOROOT", "USERPROFILE"}, EnvValues),
      Env({"GOPATH", "NVM_HOME", "SystemDrive"}, EnvValues),
      Env({}, EnvValues) }

SubstInit ==
    /\ optPc = "subst"
    /\ \E pre \in SubstPrefixes, t \in Tails(MaxTailLen) : pathStr = pre \o t
    /\ envVars \in SubstEnvs
    /\ opts = DefaultOptions /\ hotPaths = <<>> /\ entries = <<>> /\ idx = 1
    /\ proc = newEntryProcessor /\ survivors = <<>> /\ result = NoResult
    /\ substOut = NoSubst
    /\ BkIdle
    /\ CallIdle
    /\ ProgIdle

\* the call SubstituteEnvVars(pathStr)
Substitute ==
    /\ optPc = "subst"
    /\ substOut' = SubstituteEnvVars(pathStr, envVars)
    /\ optPc' = "substDone"
    /\ UNCHANGED <<pathStr, opts, hotPaths, envVars, entries, idx, proc, survivors, result>>
    /\ UNCHANGED <<bkVars, callVars, progVars>>

SubstNext == Substitute

SpecSubst == SubstInit /\ [][SubstNext]_vars

\* the variable at position i of the priority list is set to a value that is
\* a prefix of p, case ignored, and p goes on with nothing or a separator
MatchesAtBoundary(i, p, env) ==
    LET v == SubstitutionPriority[i] IN
    /\ v \in DOMAIN env
    /\ env[v] # ""
    /\ Len(env[v]) <= Len(p)
    /\ ToLower(SubSeq(p, 1, Len(env[v]))) = ToLower(env[v])
    /\ Len(p) > Len(env[v]) => CharAt(p, Len(env[v]) + 1) \in {"\\", "/"}

\* p with the value of the variable at position i replaced by %name%
Replaced(i, p, env) ==
    "%" \o SubstitutionPriority[i] \o "%"
        \o SubSeq(p, Len(env[SubstitutionPriority[i]]) + 1, Len(p))

Substituted == optPc = "substDone" /\ substOut[2]

\* C9 as stated: a substitution uses a variable whose value is a
\* case-insensitive prefix of the given path, ending at a path boundary
C9_PrefixOfGivenPath ==
    Substituted =>
        \E i \in 1..Len(SubstitutionPriority) :
            /\ MatchesAtBoundary(i, pathStr, envVars)
            /\ substOut[1] = Replaced(i, pathStr, envVars)

\* C9, amended: a substitution uses a variable whose value is a
\* case-insensitive prefix, ending at a path boundary (nothing or a separator
\* follows), of the path as expandShortUserPath returns it, that is with an
\* 8.3 name of the user folder replaced by the folder name of USERPROFILE;
\* the result is %name% and the rest of that path.  C:\Windows2 is never
\* substituted through a variable whose value is C:\Windows.
C9_PrefixAtPathBoundary ==
    /\ Substituted =>
        \E i \in 1..Len(SubstitutionPriority) :
            /\ MatchesAtBoundary(i, expandShortUserPath(pathStr, envVars), envVars)
            /\ substOut[1] = Replaced(i, expandShortUserPath(pathStr, envVars), envVars)
    /\ (optPc = "substDone" /\ HasPrefix(ToLower(pathStr), "c:\\windows2")) =>
        \A i \in 1..Len(SubstitutionPriority) :
            (SubstitutionPriority[i] \in DOMAIN envVars
               /\ ToLower(envVars[SubstitutionPriority[i]]) = "c:\\windows")
              => substOut[1] # Replaced(i, pathStr, envVars)

\* C9 witness: a path under C:\Windows substituted, with a variable that is
\* also set when C:\Windows2 is left alone
C9_Witness ==
    /\ optPc = "substDone"
    /\ pathStr = "c:\\WINDOWS\\b"
    /\ substOut = <<"%WINDIR%\\b", TRUE>>

\* the candidates of a path: the positions of the priority list that match
\* the expanded path at a path boundary
Candidates(path, env) ==
    { i \in 1..Len(SubstitutionPriority) :
        MatchesAtBoundary(i, expandShortUserPath(path, env), env) }

\* the characters a candidate saves
Savings(i, path, env) ==
    Len(path) - Len(Replaced(i, expandShortUserPath(path, env), env))

\* C10: the variable used is, among the candidates, one that saves the most
\* characters, and the earliest in the priority list of those that save as
\* many; a substitution is made exactly when some candidate saves a character
C10_MaxSavingsEarliestOnTie ==
    (optPc = "substDone" /\ pathStr # "" /\ ~ContainsChar(pathStr, "%")) =>
        /\ substOut[2] <=>
             \E i \in Candidates(pathStr, envVars) : Savings(i, pathStr, envVars) > 0
        /\ ~substOut[2] => substOut[1] = pathStr
        /\ substOut[2] =>
             \E i \in Candidates(pathStr, envVars) :
                /\ substOut[1] = Replaced(i, expandShortUserPath(pathStr, envVars), envVars)
                /\ \A j \in Candidates(pathStr, envVars) :
                     /\ Savings(j, pathStr, envVars) <= Savings(i, pathStr, envVars)
                     /\ Savings(j, pathStr, envVars) = Savings(i, pathStr, envVars) => i <= j

\* C10 witness: SystemRoot, WINDIR and GOROOT all match; WINDIR is used,
\* which saves more than SystemRoot, earlier in the list, and as much as
\* GOROOT, later in the list
C10_Witness ==
    /\ optPc = "substDone"
    /\ {"SystemRoot", "WINDIR", "GOROOT"} \subseteq DOMAIN envVars
    /\ pathStr = "C:\\Windows\\b"
    /\ Cardinality(Candidates(pathStr, envVars)) = 3
    /\ substOut = <<"%WINDIR%\\b", TRUE>>

\* what a key press can change: the Model's fields, the command or message
\* under way, and what the handlers write
KeyEffects ==
    <<screen, mErr, mBackupInfo, isAdmin, maxBackups, msg, files, userPath, systemPath,
      pathExt, last, names>>

\* C13: while the screen is ScreenLoading a key press (other than ctrl+c)
\* changes nothing of the Model, starts no command and writes nothing, and
\* the screen stays ScreenLoading until Update receives the completion
\* message of the running task.
C13_KeysIgnoredWhileLoading ==
    [][ /\ (screen = "ScreenLoading" /\ ops' = ops + 1) => UNCHANGED KeyEffects
        /\ (screen = "ScreenLoading" /\ screen' # "ScreenLoading") =>
              (msg.kind = "applyCompleteMsg" /\ msg' = NoMsg /\ ops' = ops) ]_vars

\* C13 witness: a key was pressed, and dropped, while the apply task was
\* still to run
C13_Witness ==
    /\ screen = "ScreenLoading"
    /\ keysDropped > 0
    /\ msg.kind = "applyOptimizationCmd"

(***************************************************************************)
(* ExpandEnvVars, one loop iteration at a time                             *)
(***************************************************************************)

\* the paths expanded: a token, a token after a drive, two tokens, a lone '%'
ExpandPaths ==
    { pre \o t : pre \in { "", "C:\\" },
                 t \in { "%A%", "%B%\\x", "%X%", "%P%", "%Q%\\x", "%U%", "%A%%U%",
                         "%U%%X%", "%A%%B%", "50%", "plain", "" } }

\* the values a variable may hold: a directory, a value that names another
\* variable, a value that names its own variable, two values that name each
\* other
ExpandValues ==
    [ v \in { "A", "B", "X", "P", "Q" } |->
        CASE v = "A" -> "C:\\a"
          [] v = "B" -> "%A%\\b"
          [] v = "X" -> "%X%"
          [] v = "P" -> "%Q%"
          [] v = "Q" -> "%P%" ]

ExpandEnvs ==
    { Env({"A"}, ExpandValues),
      Env({"A", "B"}, ExpandValues),
      Env({"B"}, ExpandValues),
      Env({"A", "X"}, ExpandValues),
      Env({"A", "B", "P", "Q"}, ExpandValues) }

ExpandInit ==
    /\ OptIdle
    /\ BkIdle
    /\ ProgIdle
    /\ callPc = "ExpandEnvVars"
    /\ \E p \in ExpandPaths, e \in ExpandEnvs : callArgs = [path |-> p, envVars |-> e]
    /\ callRet = ""

\* ExpandEnvVars up to its loop: the early return, or result := path
ExpandEnter ==
    /\ callPc = "ExpandEnvVars"
    /\ callRet' = callArgs.path
    /\ callPc' = IF callArgs.path = "" \/ ~ContainsChar(callArgs.path, "%")
                 THEN "returned" ELSE "loop"
    /\ UNCHANGED <<callArgs, optVars, bkVars, progVars>>

\* one iteration of the for loop: replace the first token and go on, or break
ExpandIterate ==
    /\ callPc = "loop"
    /\ callRet' = ExpandStep(callRet, callArgs.envVars).result
    /\ callPc' = IF ExpandStep(callRet, callArgs.envVars).again THEN "loop" ELSE "returned"
    /\ UNCHANGED <<callArgs, optVars, bkVars, progVars>>

ExpandNext == ExpandEnter \/ ExpandIterate

\* the function's statements are executed one after the other without pause
SpecExpand ==
    ExpandInit /\ [][ExpandNext]_vars /\ WF_vars(ExpandEnter) /\ WF_vars(ExpandIterate)

\* C11: ExpandEnvVars terminates for every path and every environment,
\* values that hold %NAME% tokens included: every call returns.
C11_ExpandTerminates == <>(callPc = "returned")

(***************************************************************************)
(* The analysis task, its progress channel and the loading screen          *)
(***************************************************************************)

\* make(chan progressMsg, 100)
ProgressChanCap == 100

\* the largest number of PATH entries analysed
MaxTotalEntries == 101

progressMsg(current, total, item) == [current |-> current, total |-> total, item |-> item]

\* a plain send `progressChan <- m` can go on only when the buffer has room
CanSendWhenRoom(ch) == Len(ch) < ProgressChanCap

\* select { case progressChan <- m: default: } always goes on
CanSend(ch) == TRUE

\* the channel after the select: m is queued when there is room, else dropped
TrySend(ch, m) == IF Len(ch) < ProgressChanCap THEN Append(ch, m) ELSE ch

\* selectMenuItem, case 0, has set ScreenLoading and started analyzeCmd and
\* tickCmd; the registry holds totalEntries PATH entries
ProgInit ==
    /\ OptIdle
    /\ CallIdle
    /\ clock = 0 /\ files = {} /\ userPath = "" /\ systemPath = "" /\ pathExt = <<>>
    /\ isAdmin = FALSE /\ maxBackups = DefaultMaxBackups /\ mErr = ""
    /\ mBackupInfo = NoBackupInfo /\ last = NoOp /\ names = <<>> /\ ops = 0
    /\ keysDropped = 0 /\ sel = NoSel /\ links = {}
    /\ screen = "ScreenLoading"
    /\ msg = NoMsg
    /\ progressChan = <<>>
    /\ taskPc = "entries"
    /\ taskAt = 0
    /\ totalEntries \in {0, 2, MaxTotalEntries}
    /\ loading = NoLoading
    /\ listening = FALSE

ProgFrame == UNCHANGED <<optVars, callVars, clock, files, userPath, systemPath, pathExt,
                         isAdmin, maxBackups, mErr, mBackupInfo, last, names, ops,
                         keysDropped, sel, links>>

\* analyzeCmd's callback, called by OptimizeWithProgress for the entry at
\* index taskAt (the System entries first, then the User entries)
AnalyzeProgress ==
    /\ taskPc = "entries"
    /\ taskAt < totalEntries
    /\ CanSend(progressChan)
    /\ progressChan' = TrySend(progressChan, progressMsg(taskAt, totalEntries, "entry"))
    /\ taskAt' = taskAt + 1
    /\ UNCHANGED <<taskPc, totalEntries, loading, listening, screen, msg>>
    /\ ProgFrame

\* after both loops: progress(totalEntries, totalEntries, "Detecting custom
\* variables...")
AnalyzeDetect ==
    /\ taskPc = "entries"
    /\ taskAt = totalEntries
    /\ CanSend(progressChan)
    /\ progressChan' = TrySend(progressChan, progressMsg(totalEntries, totalEntries,
                                                         "Detecting custom variables..."))
    /\ taskPc' = "return"
    /\ UNCHANGED <<taskAt, totalEntries, loading, listening, screen, msg>>
    /\ ProgFrame

\* analyzeCmd returns analysisCompleteMsg{result}
AnalyzeReturn ==
    /\ taskPc = "return"
    /\ msg' = [kind |-> "analysisCompleteMsg"]
    /\ taskPc' = "done"
    /\ UNCHANGED <<progressChan, taskAt, totalEntries, loading, listening, screen>>
    /\ ProgFrame

\* Model.Update, case tickMsg, on ScreenLoading: the next tick and a
\* listenForProgress are started (a listener ends within 100 ms, the next
\* tick comes after 300 ms)
UpdateTick ==
    /\ screen = "ScreenLoading"
    /\ ~listening
    /\ loading' = [loading EXCEPT !.Dots = (loading.Dots + 1) % 4]
    /\ listening' = TRUE
    /\ UNCHANGED <<progressChan, taskPc, taskAt, totalEntries, screen, msg>>
    /\ ProgFrame

\* Model.Update, case progressMsg
UpdateProgress(m, p) ==
    [m EXCEPT !.Current = p.current, !.Total = p.total,
              !.Item = IF p.item # "" THEN p.item ELSE m.Item]

\* listenForProgress receives an update, which Update then handles, or
\* gives up after 100 ms with the channel empty
ListenForProgress ==
    /\ listening
    /\ listening' = FALSE
    /\ IF Len(progressChan) > 0
       THEN /\ progressChan' = Tail(progressChan)
            /\ loading' = UpdateProgress(loading, Head(progressChan))
       ELSE UNCHANGED <<progressChan, loading>>
    /\ UNCHANGED <<taskPc, taskAt, totalEntries, screen, msg>>
    /\ ProgFrame

\* Model.Update, case analysisCompleteMsg
UpdateAnalysisComplete ==
    /\ msg.kind = "analysisCompleteMsg"
    /\ screen' = "ScreenOptimizerPreview"
    /\ loading' = [loading EXCEPT !.Current = 0, !.Total = 0, !.Item = ""]
    /\ msg' = NoMsg
    /\ UNCHANGED <<progressChan, taskPc, taskAt, totalEntries, listening>>
    /\ ProgFrame

TaskNext == AnalyzeProgress \/ AnalyzeDetect \/ AnalyzeReturn

ProgNext ==
    \/ AnalyzeProgress
    \/ AnalyzeDetect
    \/ AnalyzeReturn
    \/ UpdateTick
    \/ ListenForProgress
    \/ UpdateAnalysisComplete

\* the task's goroutine runs on by itself; nothing obliges the UI to tick,
\* to listen or to handle a message
SpecProgress == ProgInit /\ [][ProgNext]_vars /\ WF_vars(TaskNext)

\* C14: the progress channel never holds more than its 100 updates; an
\* update sent while it is full is dropped (the channel stays as it is and
\* the task goes on); the task can always take its next step, whatever the
\* UI has received; and it ends with its completion message delivered.
C14_ProgressNeverBlocks ==
    /\ [](Len(progressChan) <= ProgressChanCap)
    /\ [](taskPc \in {"entries", "return"} => ENABLED TaskNext)
    /\ [][(taskPc = "entries" /\ (taskAt' = taskAt + 1 \/ taskPc' = "return")) =>
            IF Len(progressChan) = ProgressChanCap
            THEN progressChan' = progressChan
            ELSE Len(progressChan') = Len(progressChan) + 1]_vars
    /\ [](taskPc = "done" =>
            (msg.kind = "analysisCompleteMsg" \/ screen = "ScreenOptimizerPreview"))
    /\ <>(taskPc = "done")

\* C14 witness: the task ended with the channel full, the UI having received
\* nothing, and the last update is not in the channel: it was dropped
C14_Witness ==
    /\ taskPc = "done"
    /\ Len(progressChan) = ProgressChanCap
    /\ loading = NoLoading
    /\ \A i \in 1..Len(progressChan) : progressChan[i].current # totalEntries

(***************************************************************************)
(* PATHEXT: ParsePathExt, AnalyzePathExt, OptimizePathExt (pathext.go)     *)
(***************************************************************************)

DefaultPathExt == ".COM;.EXE;.BAT;.CMD;.VBS;.VBE;.JS;.JSE;.WSF;.WSH;.MSC"

\* the order of DefaultPathExt, .COM in front
OptimalOrderAsDefault ==
    <<".COM", ".EXE", ".BAT", ".CMD", ".PS1", ".PY", ".PYW", ".MSC", ".JS", ".VBS", ".VBE",
      ".JSE", ".WSF", ".WSH">>

OptimalOrder ==
    <<".EXE", ".CMD", ".BAT", ".PS1", ".PY", ".PYW", ".COM", ".MSC", ".JS", ".VBS", ".VBE",
      ".JSE", ".WSF", ".WSH">>

RemovableExtensions == <<".VBE", ".JSE", ".WSF", ".WSH">>

\* strings.ToUpper
ToUpperChar(c) ==
    IF c \in LowerSet
    THEN CharAt(UpperLetters, CHOOSE i \in 1..Len(LowerLetters) : CharAt(LowerLetters, i) = c)
    ELSE c

RECURSIVE ToUpper(_)
ToUpper(s) == IF s = "" THEN "" ELSE ToUpperChar(Head(s)) \o ToUpper(Tail(s))

\* GetCurrentPathExt("Effective"): the User value overrides the Machine one;
\* DefaultPathExt when PowerShell fails or nothing is set
GetCurrentPathExt(pe, ok) ==
    IF ~ok THEN DefaultPathExt
    ELSE IF pe.User # "" THEN pe.User
    ELSE IF pe.Machine # "" THEN pe.Machine
    ELSE DefaultPathExt

HasUserPathExt(pe, ok) == ok /\ pe.User # ""

UpperTrimmed(parts) == [ i \in 1..Len(parts) |-> TrimSpace(ToUpper(parts[i])) ]

\* ParsePathExt(pathext) for a pathext that is not empty
ParsePathExt(pathext) == SelectSeq(UpperTrimmed(Split(pathext, {";"})), NonEmpty)

\* indexOf: the 0-based index of the first item, -1 when there is none
indexOf(slice, item) ==
    IF \E i \in 1..Len(slice) : slice[i] = item
    THEN (CHOOSE i \in 1..Len(slice) :
            slice[i] = item /\ \A j \in 1..(i - 1) : slice[j] # item) - 1
    ELSE -1

contains(slice, item) == indexOf(slice, item) >= 0

PathExtIssue(type, message, impact) == [Type |-> type, Message |-> message, Impact |-> impact]

\* an analysis with one more issue, one more recommendation unless rec is
\* empty, and IsOptimal cleared when the issue counts against optimality
WithIssue(a, issue, rec, counts) ==
    [a EXCEPT !.Issues = Append(@, issue),
              !.Recommendations = IF rec = "" THEN @ ELSE Append(@, rec),
              !.IsOptimal = IF counts THEN FALSE ELSE @]

checkUserPathExt(a) ==
    IF a.HasUserPathExt
    THEN WithIssue(a, PathExtIssue("info", <<"User-level PATHEXT is defined (overrides System)">>,
                                   "info"), "", FALSE)
    ELSE a

checkExePosition(a, current) ==
    IF indexOf(current, ".EXE") # 0
    THEN WithIssue(a, PathExtIssue("order", <<".EXE is not first (currently position ",
                                              indexOf(current, ".EXE") + 1, ")">>, "high"),
                   "Move .EXE to the first position", TRUE)
    ELSE a

\* a check that reports .CMD after .BAT as a suggestion only
checkCmdBatOrderAsSuggestion(a, current) ==
    IF indexOf(current, ".CMD") > indexOf(current, ".BAT") /\ indexOf(current, ".BAT") >= 0
    THEN WithIssue(a, PathExtIssue("order", <<".CMD comes after .BAT (modern scripts use .CMD)">>,
                                   "medium"), "Move .CMD before .BAT", FALSE)
    ELSE a

checkCmdBatOrder(a, current) ==
    IF indexOf(current, ".CMD") > indexOf(current, ".BAT") /\ indexOf(current, ".BAT") >= 0
    THEN WithIssue(a, PathExtIssue("order", <<".CMD comes after .BAT (modern scripts use .CMD)">>,
                                   "medium"), "Move .CMD before .BAT", TRUE)
    ELSE a

checkPythonPosition(a, current) ==
    IF indexOf(current, ".PY") > 5 /\ indexOf(current, ".PY") # -1
    THEN WithIssue(a, PathExtIssue("suggestion", <<".PY is at position ",
                                                   indexOf(current, ".PY") + 1>>, "low"),
                   "", FALSE)
    ELSE a

IsRemovable(ext) == contains(RemovableExtensions, ext)

checkRemovableExtensions(a, current) ==
    IF SelectSeq(current, IsRemovable) # <<>>
    THEN WithIssue(a, PathExtIssue("bloat", <<"Rarely-used extensions present: ",
                                              Join(SelectSeq(current, IsRemovable), ", ")>>,
                                   "low"),
                   "Consider removing: " \o Join(SelectSeq(current, IsRemovable), ", "), FALSE)
    ELSE a

checkComBeforeExe(a, current) ==
    IF indexOf(current, ".COM") >= 0 /\ indexOf(current, ".COM") < indexOf(current, ".EXE")
    THEN WithIssue(a, PathExtIssue("legacy", <<".COM is checked before .EXE">>, "medium"),
                   "Move .COM after .EXE", TRUE)
    ELSE a

\* AnalyzePathExt, for the parsed list current (CurrentWithInfo, the
\* descriptions of the extensions, left out)
AnalyzeCurrent(current, hasUser) ==
    checkComBeforeExe(
      checkRemovableExtensions(
        checkPythonPosition(
          checkCmdBatOrder(
            checkExePosition(
              checkUserPathExt([Current |-> current, Issues |-> <<>>,
                                Recommendations |-> <<>>, IsOptimal |-> TRUE,
                                HasUserPathExt |-> hasUser]),
              current),
            current),
          current),
        current),
      current)

AnalyzePathExt(pe, readOk, userOk) ==
    AnalyzeCurrent(ParsePathExt(GetCurrentPathExt(pe, readOk)), HasUserPathExt(pe, userOk))

\* keepAll || !contains(RemovableExtensions, ext)
KeepsExt(ext, keepAll) == keepAll \/ ~contains(RemovableExtensions, ext)

\* the first loop: the extensions of OptimalOrder from position i on that
\* are in current and kept
RECURSIVE InOptimalOrder(_, _, _)
InOptimalOrder(current, keepAll, i) ==
    IF i > Len(OptimalOrder) THEN <<>>
    ELSE (IF contains(current, OptimalOrder[i]) /\ KeepsExt(OptimalOrder[i], keepAll)
          THEN <<OptimalOrder[i]>> ELSE <<>>)
         \o InOptimalOrder(current, keepAll, i + 1)

\* the second loop: the extensions of current from position i on that the
\* first loop did not add and that are kept
RECURSIVE Remaining(_, _, _, _)
Remaining(current, added, keepAll, i) ==
    IF i > Len(current) THEN <<>>
    ELSE (IF ~contains(added, current[i]) /\ KeepsExt(current[i], keepAll)
          THEN <<current[i]>> ELSE <<>>)
         \o Remaining(current, added, keepAll, i + 1)

PathExtOptimization(original, optimized) ==
    [Original |-> original, Optimized |-> optimized,
     OptimizedString |-> Join(optimized, ";"),
     Changed |-> original # Join(optimized, ";")]

\* OptimizePathExt, for the parsed list current
OptimizeCurrent(current, keepAll) ==
    PathExtOptimization(Join(current, ";"),
                        InOptimalOrder(current, keepAll, 1)
                          \o Remaining(current, InOptimalOrder(current, keepAll, 1), keepAll, 1))

OptimizePathExt(pe, keepAll, readOk) ==
    OptimizeCurrent(ParsePathExt(GetCurrentPathExt(pe, readOk)), keepAll)

\* the longest PATHEXT list drawn from ExtPool
MaxExts == 3

ExtPool == { ".EXE", ".CMD", ".BAT", ".COM", ".VBE", ".ZZ" }

\* the Machine values: the lists over ExtPool, the default, and a long list
\* with .PY near its end
MachinePathExts ==
    { Join(l, ";") : l \in SeqsUpTo(ExtPool, MaxExts) }
      \cup { DefaultPathExt, DefaultPathExt \o ";.py" }

\* the User values: none, one in lower case with blanks and an empty
\* segment, one with .BAT and .COM in front
UserPathExts == { "", ".exe; .cmd;;.bat", ".BAT;.COM;.CMD;.EXE" }

PathExtInit ==
    /\ OptIdle
    /\ ProgIdle
    /\ clock = 0 /\ files = {} /\ userPath = "" /\ systemPath = ""
    /\ isAdmin = FALSE /\ maxBackups = DefaultMaxBackups /\ screen = "none" /\ msg = NoMsg
    /\ mErr = "" /\ mBackupInfo = NoBackupInfo /\ last = NoOp /\ names = <<>> /\ ops = 0
    /\ keysDropped = 0 /\ sel = NoSel /\ links = {}
    /\ \E u \in UserPathExts, m \in MachinePathExts : pathExt = [User |-> u, Machine |-> m]
    /\ callPc = "start"
    /\ callArgs = <<>>
    /\ callRet = <<>>

\* a call of AnalyzePathExt(); either PowerShell read may fail
AnalyzePathExtCall ==
    /\ callPc = "start"
    /\ \E readOk \in BOOLEAN, userOk \in BOOLEAN :
         /\ callArgs' = [readOk |-> readOk, userOk |-> userOk]
         /\ callRet' = AnalyzePathExt(pathExt, readOk, userOk)
    /\ callPc' = "AnalyzePathExt"
    /\ UNCHANGED <<optVars, bkVars, progVars>>

\* a call of OptimizePathExt(keepAll)
OptimizePathExtCall ==
    /\ callPc = "start"
    /\ \E keepAll \in BOOLEAN, readOk \in BOOLEAN :
         /\ callArgs' = [keepAll |-> keepAll, readOk |-> readOk]
         /\ callRet' = OptimizePathExt(pathExt, keepAll, readOk)
    /\ callPc' = "OptimizePathExt"
    /\ UNCHANGED <<optVars, bkVars, progVars>>

PathExtNext == AnalyzePathExtCall \/ OptimizePathExtCall

SpecPathExt == PathExtInit /\ [][PathExtNext]_vars

\* the list the call worked on
CurrentOf(args) == ParsePathExt(GetCurrentPathExt(pathExt, args.readOk))

\* C16: when the current PATHEXT list contains .EXE, the list OptimizePathExt
\* returns begins with .EXE; Changed is true exactly when the optimized
\* list joined with ';' differs from the current list joined with ';'; and
\* [.CMD,.EXE,.BAT] with keepAll gives .EXE first and Changed = true.
C16_ExeFirstAndChangedFlag ==
    /\ OptimizeCurrent(<<".CMD", ".EXE", ".BAT">>, TRUE).Optimized[1] = ".EXE"
    /\ OptimizeCurrent(<<".CMD", ".EXE", ".BAT">>, TRUE).Changed
    /\ callPc = "OptimizePathExt" =>
         /\ (\E i \in 1..Len(CurrentOf(callArgs)) : CurrentOf(callArgs)[i] = ".EXE")
              => (Len(callRet.Optimized) > 0 /\ callRet.Optimized[1] = ".EXE")
         /\ callRet.Changed <=>
              (Join(callRet.Optimized, ";") # Join(CurrentOf(callArgs), ";"))
         /\ callRet.OptimizedString = Join(callRet.Optimized, ";")

\* C16 witness: a list with .COM in front of .EXE and an unknown extension
\* was optimized
C16_Witness ==
    /\ callPc = "OptimizePathExt"
    /\ CurrentOf(callArgs) = <<".COM", ".EXE", ".ZZ">>
    /\ callRet.Optimized = <<".EXE", ".COM", ".ZZ">>
    /\ callRet.Changed

\* the first position of ext in current, 0 when it is not there
FirstAt(current, ext) ==
    IF \E i \in 1..Len(current) : current[i] = ext
    THEN CHOOSE i \in 1..Len(current) : current[i] = ext /\ \A j \in 1..(i - 1) : current[j] # ext
    ELSE 0

ExeNotFirst(current) == current = <<>> \/ current[1] # ".EXE"

CmdAfterBat(current) ==
    /\ FirstAt(current, ".CMD") > 0
    /\ FirstAt(current, ".BAT") > 0
    /\ FirstAt(current, ".CMD") > FirstAt(current, ".BAT")

ComBeforeExe(current) ==
    /\ FirstAt(current, ".COM") > 0
    /\ FirstAt(current, ".EXE") > 0
    /\ FirstAt(current, ".COM") < FirstAt(current, ".EXE")

IsInfoIssue(issue) == issue.Type = "info"

\* C17: AnalyzePathExt reports IsOptimal = false exactly when .EXE is not
\* the first extension of the current list, or .CMD and .BAT are both in it
\* and .CMD comes after .BAT, or .COM comes before .EXE; a user-level
\* PATHEXT adds one issue of type info and does not change IsOptimal.
C17_OptimalExactlyWhenOrdered ==
    callPc = "AnalyzePathExt" =>
        /\ callRet.Current = CurrentOf(callArgs)
        /\ ~callRet.IsOptimal <=>
             \/ ExeNotFirst(callRet.Current)
             \/ CmdAfterBat(callRet.Current)
             \/ ComBeforeExe(callRet.Current)
        /\ Len(SelectSeq(callRet.Issues, IsInfoIssue)) =
             (IF HasUserPathExt(pathExt, callArgs.userOk) THEN 1 ELSE 0)
        /\ callRet.IsOptimal = AnalyzeCurrent(callRet.Current, ~callRet.HasUserPathExt).IsOptimal

\* C17 witness: a user-level PATHEXT with .BAT and .COM in front: the info
\* issue and the three issues that count against optimality
C17_Witness ==
    /\ callPc = "AnalyzePathExt"
    /\ callRet.HasUserPathExt
    /\ callRet.Current = <<".BAT", ".COM", ".CMD", ".EXE">>
    /\ ~callRet.IsOptimal
    /\ [ i \in 1..Len(callRet.Issues) |-> callRet.Issues[i].Type ]
         = <<"info", "order", "order", "legacy">>

(***************************************************************************)
(* Junction suggestions: SuggestJunctionCandidates (part_006)              *)
(***************************************************************************)

\* filepath.Base of the Windows build
Base(path) ==
    IF path = "" THEN "."
    ELSE LET rest == From(TrimRightSeparators(path),
                          VolumeNameLen(TrimRightSeparators(path)) + 1)
             i    == IF LastIndexChar(rest, "\\") > LastIndexChar(rest, "/")
                     THEN LastIndexChar(rest, "\\") ELSE LastIndexChar(rest, "/")
         IN  IF From(rest, i + 1) = "" THEN "\\" ELSE From(rest, i + 1)

\* filepath.Dir of the Windows build, for a path with a drive letter or none
Dir(path) ==
    LET vol == VolumeNameLen(path)
        i   == IF LastIndexChar(path, "\\") > LastIndexChar(path, "/")
               THEN LastIndexChar(path, "\\") ELSE LastIndexChar(path, "/")
    IN  Clean(SubSeq(path, 1, IF i > vol THEN i ELSE vol))

\* filepath.Join(folder, name)
FilepathJoin(folder, name) ==
    IF folder = "" THEN Clean(name)
    ELSE IF name = "" THEN Clean(folder)
    ELSE Clean(folder \o "\\" \o name)

Digits == "0123456789"

DigitSet == { CharAt(Digits, i) : i \in 1..Len(Digits) }

\* fmt.Sprintf("%d", i) for 0 <= i <= 99
Itoa(i) ==
    IF i < 10 THEN CharAt(Digits, i + 1)
    ELSE CharAt(Digits, (i \div 10) + 1) \o CharAt(Digits, (i % 10) + 1)

\* the characters cleanNameChars keeps, of a name in lower case
RECURSIVE KeepNameChars(_, _)
KeepNameChars(name, keepDashUnderscore) ==
    IF name = "" THEN ""
    ELSE (IF \/ Head(name) \in LowerSet
             \/ Head(name) \in DigitSet
             \/ (keepDashUnderscore /\ Head(name) \in {"-", "_"})
          THEN Head(name) ELSE "")
         \o KeepNameChars(Tail(name), keepDashUnderscore)

cleanNameChars(name, keepDashUnderscore) == KeepNameChars(ToLower(name), keepDashUnderscore)

truncateName(name, maxLen) == IF Len(name) > maxLen THEN SubSeq(name, 1, maxLen) ELSE name

\* usedNames[name], 0 for a name that is no key of the map
UsedCount(usedNames, name) == IF name \in DOMAIN usedNames THEN usedNames[name] ELSE 0

\* usedNames[name]++
Incremented(usedNames, name) ==
    [ n \in DOMAIN usedNames \cup {name} |->
        IF n = name THEN UsedCount(usedNames, name) + 1 ELSE usedNames[n] ]

\* parentClean + "-" + cleanName, truncated, when it is free
ParentName(parentClean, cleanName, usedNames) ==
    IF parentClean = "" THEN ""
    ELSE IF UsedCount(usedNames, ToLower(truncateName(parentClean \o "-" \o cleanName, 12))) = 0
    THEN truncateName(parentClean \o "-" \o cleanName, 12)
    ELSE ""

tryUniqueWithParent(path, cleanName, usedNames) ==
    IF Base(Dir(path)) \in {"", ".", "\\"} THEN ""
    ELSE ParentName(truncateName(cleanNameChars(Base(Dir(path)), FALSE), 4), cleanName, usedNames)

\* numName of tryUniqueWithNumber for the number i
NumName(cleanName, i) ==
    SubSeq(cleanName, 1, IF 10 - Len(Itoa(i)) > Len(cleanName) THEN Len(cleanName)
                         ELSE 10 - Len(Itoa(i)))
      \o Itoa(i)

FreeNumbers(cleanName, usedNames) ==
    { i \in 2..99 : UsedCount(usedNames, ToLower(NumName(cleanName, i))) = 0 }

FirstFree(cleanName, free) ==
    IF free = {} THEN "" ELSE NumName(cleanName, CHOOSE i \in free : \A j \in free : i <= j)

tryUniqueWithNumber(cleanName, usedNames) ==
    FirstFree(cleanName, FreeNumbers(cleanName, usedNames))

\* generateJunctionName once cleanName is known: the name itself, else the
\* name with the parent in front, else the name with a number
UniqueName(path, cleanName, usedNames) ==
    IF UsedCount(usedNames, ToLower(cleanName)) = 0 THEN cleanName
    ELSE IF tryUniqueWithParent(path, cleanName, usedNames) # ""
    THEN tryUniqueWithParent(path, cleanName, usedNames)
    ELSE tryUniqueWithNumber(cleanName, usedNames)

\* a generateJunctionName that does not look at the names in use
generateJunctionNameUnchecked(path, usedNames) ==
    IF Base(path) \in {"", ".", "\\"} THEN ""
    ELSE truncateName(IF cleanNameChars(Base(path), TRUE) = "" THEN "dir"
                      ELSE cleanNameChars(Base(path), TRUE), 8)

generateJunctionName(path, usedNames) ==
    IF Base(path) \in {"", ".", "\\"} THEN ""
    ELSE UniqueName(path,
                    truncateName(IF cleanNameChars(Base(path), TRUE) = "" THEN "dir"
                                 ELSE cleanNameChars(Base(path), TRUE), 8),
                    usedNames)

JunctionSuggestion(p, shortName, junctionPath) ==
    [OriginalPath |-> p, SuggestedName |-> shortName, JunctionPath |-> junctionPath,
     SavedChars |-> Len(p) - Len(junctionPath)]

\* a threshold that lets a saving of exactly 20 characters through
SignificantFrom20(savedChars) == savedChars >= 20

\* "Only suggest if it saves significant chars"
Significant(savedChars) == savedChars > 20

\* the loop body from junctionPath on
WithJunctionPath(st, p, shortName, junctionPath) ==
    IF Significant(Len(p) - Len(junctionPath))
    THEN [st EXCEPT !.suggestions = Append(@, JunctionSuggestion(p, shortName, junctionPath)),
                    !.usedNames = Incremented(@, ToLower(shortName))]
    ELSE st

\* the loop body from shortName on
WithName(st, p, folder, shortName) ==
    IF shortName = "" THEN st
    ELSE WithJunctionPath(st, p, shortName, FilepathJoin(folder, shortName))

\* one iteration of the loop over allPaths
SuggestFor(st, p, folder) ==
    IF ContainsChar(p, "%") \/ Len(p) < 30 THEN st
    ELSE IF HasPrefix(ToLower(p), ToLower(folder)) THEN st
    ELSE IF NormalizePath(p) \in st.seen THEN st
    ELSE WithName([st EXCEPT !.seen = @ \cup {NormalizePath(p)}], p, folder,
                  generateJunctionName(p, st.usedNames))

\* sort.Slice by SavedChars, descending: any order of the suggestions in
\* which the savings do not increase
SortedBySavings(sugs) ==
    { [ i \in 1..Len(sugs) |-> sugs[f[i]] ] :
        f \in { g \in [1..Len(sugs) -> 1..Len(sugs)] :
                  /\ \A a, b \in 1..Len(sugs) : a # b => g[a] # g[b]
                  /\ \A a, b \in 1..Len(sugs) :
                        a < b => sugs[g[a]].SavedChars >= sugs[g[b]].SavedChars } }

\* the longest System PATH analysed, in entries (the User PATH adds one)
MaxJunctionPaths == 2

\* PATH entries: two long ones with the base name bin, one that differs
\* from the first in case and trailing separator, one whose junction would
\* save exactly 20 characters, one with a variable, one inside the junction
\* folder, one beside the junction folder whose name begins like the
\* folder's, a short one
JunctionPathPool ==
    { "C:\\Program Files\\Java\\jdk-17.0.2\\bin",
      "C:\\Libraries\\boost_1_82\\stage\\lib",
      "C:\\Program Files\\Git\\usr\\local\\bin",
      "c:\\program files\\java\\JDK-17.0.2\\BIN\\",
      "C:\\Users\\J\\AppData\\Local\\Programs",
      "%ProgramFiles%\\Microsoft SQL Server\\Tools",
      "C:\\L\\tools\\python311\\scripts\\bin",
      "C:\\Windows\\System32" }

\* the names of the junctions ListJunctions finds: none, one that differs
\* in case from the base name bin, that and the parent-prefixed name, and
\* every name generateJunctionName can try for the two bin entries
ExistingJunctionNames ==
    { {}, {"BIN"}, {"Bin", "JDK1-bin"},
      {"bin", "jdk1-bin", "loca-bin"} \cup { "bin" \o Itoa(i) : i \in 2..99 } }

\* Config.JunctionFolder
JunctionFolder == "C:\\l"

JunctionInit ==
    /\ OptIdle
    /\ ProgIdle
    /\ clock = 0 /\ files = {} /\ pathExt = <<>>
    /\ isAdmin = FALSE /\ maxBackups = DefaultMaxBackups /\ screen = "none" /\ msg = NoMsg
    /\ mErr = "" /\ mBackupInfo = NoBackupInfo /\ last = NoOp /\ names = <<>> /\ ops = 0
    /\ keysDropped = 0 /\ sel = NoSel /\ links = {}
    /\ \E es \in SeqsUpTo(JunctionPathPool, MaxJunctionPaths) : systemPath = JoinPath(es)
    /\ userPath \in { "", "C:\\Program Files\\Git\\usr\\local\\bin" }
    /\ callPc = "SuggestJunctionCandidates"
    /\ \E e \in ExistingJunctionNames : callArgs = [folder |-> JunctionFolder, existing |-> e]
    /\ callRet = <<>>

\* SuggestJunctionCandidates up to its loop: the paths, and usedNames with
\* the names of the existing junctions
SuggestEnter ==
    /\ callPc = "SuggestJunctionCandidates"
    /\ \E sys \in GetPathRaw(systemPath), usr \in GetPathRaw(userPath) :
         callRet' = [allPaths    |-> ParsePath(sys) \o ParsePath(usr),
                     i           |-> 1,
                     suggestions |-> <<>>,
                     seen        |-> {},
                     usedNames   |-> [ n \in { ToLower(e) : e \in callArgs.existing } |-> 1 ]]
    /\ callPc' = "suggestLoop"
    /\ UNCHANGED <<callArgs, optVars, bkVars, progVars>>

\* one iteration of the loop over allPaths
SuggestIterate ==
    /\ callPc = "suggestLoop"
    /\ callRet.i <= Len(callRet.allPaths)
    /\ callRet' = [SuggestFor(callRet, callRet.allPaths[callRet.i], callArgs.folder)
                     EXCEPT !.i = callRet.i + 1]
    /\ UNCHANGED <<callPc, callArgs, optVars, bkVars, progVars>>

\* after the loop: the sort, and the return
SuggestSort ==
    /\ callPc = "suggestLoop"
    /\ callRet.i > Len(callRet.allPaths)
    /\ \E sorted \in SortedBySavings(callRet.suggestions) :
         callRet' = [callRet EXCEPT !.suggestions = sorted]
    /\ callPc' = "suggested"
    /\ UNCHANGED <<callArgs, optVars, bkVars, progVars>>

JunctionNext == SuggestEnter \/ SuggestIterate \/ SuggestSort

SpecJunction == JunctionInit /\ [][JunctionNext]_vars

\* C18: every suggestion, while the list is built and when it is returned,
\* has savedChars = len(originalPath) - len(junctionPath) with junctionPath
\* the junction folder joined with the suggested name, and savedChars > 20:
\* a candidate that would save 20 characters or fewer is not in the list.
C18_SavingsAbove20 ==
    callPc \in {"suggestLoop", "suggested"} =>
        \A k \in 1..Len(callRet.suggestions) :
            LET sg == callRet.suggestions[k] IN
            /\ sg.SavedChars = Len(sg.OriginalPath) - Len(sg.JunctionPath)
            /\ sg.JunctionPath = callArgs.folder \o "\\" \o sg.SuggestedName
            /\ sg.SavedChars > 20
            /\ Len(sg.OriginalPath) - (Len(callArgs.folder) + 1 + Len(sg.SuggestedName)) > 20

\* C18 witness: of two candidates, the one that saves 21 characters is
\* suggested and the one that would save 20 is not
C18_Witness ==
    /\ callPc = "suggested"
    /\ callRet.allPaths = <<"C:\\Users\\J\\AppData\\Local\\Programs",
                            "C:\\Program Files\\Java\\jdk-17.0.2\\bin",
                            "C:\\Program Files\\Git\\usr\\local\\bin">>
    /\ Len(callRet.suggestions) = 2
    /\ callRet.suggestions[2].SuggestedName = "loca-bin"
    /\ callRet.suggestions[2].SavedChars = 21

\* the names generateJunctionName can give the path p: the cleaned base
\* name, that name behind the cleaned parent name, that name with 2..99
BaseNameOf(p) ==
    truncateName(IF cleanNameChars(Base(p), TRUE) = "" THEN "dir"
                 ELSE cleanNameChars(Base(p), TRUE), 8)

ParentCleanOf(p) == truncateName(cleanNameChars(Base(Dir(p)), FALSE), 4)

NamesWith(base, parentClean) ==
    {base}
      \cup (IF parentClean = "" THEN {} ELSE {truncateName(parentClean \o "-" \o base, 12)})
      \cup { NumName(base, n) : n \in 2..99 }

NamesFor(p) == NamesWith(BaseNameOf(p), ParentCleanOf(p))

TakenNames(st) == { n \in DOMAIN st.usedNames : st.usedNames[n] > 0 }

NamesOf(sugs) == { ToLower(sugs[k].SuggestedName) : k \in 1..Len(sugs) }

\* C19: in the list being built and in the list returned, no two
\* suggestions have the same name and no name is that of an existing
\* junction, case ignored; and an iteration for a path all of whose names
\* (base name, parent-prefixed name, numbers 2..99) are taken adds no
\* suggestion, while every suggestion it adds has one of the path's names.
C19_NamesCollisionSafe ==
    /\ [](callPc \in {"suggestLoop", "suggested"} =>
            /\ \A j, k \in 1..Len(callRet.suggestions) :
                 j # k => ToLower(callRet.suggestions[j].SuggestedName)
                            # ToLower(callRet.suggestions[k].SuggestedName)
            /\ \A k \in 1..Len(callRet.suggestions), e \in callArgs.existing :
                 ToLower(callRet.suggestions[k].SuggestedName) # ToLower(e))
    /\ [][(callPc = "suggestLoop" /\ callPc' = "suggestLoop") =>
            LET free == NamesFor(callRet.allPaths[callRet.i]) \ TakenNames(callRet) IN
            /\ free = {} => callRet'.suggestions = callRet.suggestions
            /\ NamesOf(callRet'.suggestions) \ NamesOf(callRet.suggestions) \subseteq free]_vars

\* C19 witness: two entries with the base name bin while a junction BIN
\* exists: each got the name of its parent in front
C19_Witness ==
    /\ callPc = "suggested"
    /\ callArgs.existing = {"BIN"}
    /\ Len(callRet.suggestions) = 2
    /\ callRet.suggestions[1].SuggestedName = "jdk1-bin"
    /\ callRet.suggestions[2].SuggestedName = "loca-bin"

\* a run in which every name for the bin entries was taken: both skipped
C19_SkippedWhenExhausted ==
    /\ callPc = "suggested"
    /\ Cardinality(callArgs.existing) > 3
    /\ callRet.allPaths = <<"C:\\Program Files\\Java\\jdk-17.0.2\\bin",
                            "C:\\Program Files\\Git\\usr\\local\\bin">>
    /\ callRet.suggestions = <<>>

(***************************************************************************)
(* ListBackups: the backup directory as file names (backup.go)             *)
(***************************************************************************)

TwoDigits(n) == IF n < 10 THEN "0" \o Itoa(n) ELSE Itoa(n)

\* Timestamp.Format("20060102_150405") of the clock value t: second t after
\* 2024-01-01 12:00:00
FormatTimestamp(t) == "20240101_1200" \o TwoDigits(t)

\* fmt.Sprintf("path_%s_%s.json", ...): entry.Name() of the backup file b
BackupFileName(b) == "path_" \o FormatTimestamp(b.Timestamp) \o "_" \o b.Suffix \o ".json"

IsDigits(str) == \A i \in 1..Len(str) : CharAt(str, i) \in DigitSet

DigitValue(c) == (CHOOSE i \in 1..Len(Digits) : CharAt(Digits, i) = c) - 1

\* the number written by the digits of str (at most 8 of them)
RECURSIVE ToNumber(_)
ToNumber(str) ==
    IF str = "" THEN 0
    ELSE 10 * ToNumber(SubSeq(str, 1, Len(str) - 1)) + DigitValue(CharAt(str, Len(str)))

DaysIn(year, month) ==
    IF month = 2
    THEN (IF year % 4 = 0 /\ (year % 100 # 0 \/ year % 400 = 0) THEN 29 ELSE 28)
    ELSE IF month \in {4, 6, 9, 11} THEN 30 ELSE 31

\* time.Parse("20060102_150405", date + "_" + clock) succeeds
ValidTimestamp(date, clk) ==
    /\ Len(date) = 8 /\ IsDigits(date)
    /\ Len(clk) = 6 /\ IsDigits(clk)
    /\ ToNumber(SubSeq(date, 5, 6)) \in 1..12
    /\ ToNumber(SubSeq(date, 7, 8)) \in
         1..DaysIn(ToNumber(SubSeq(date, 1, 4)), ToNumber(SubSeq(date, 5, 6)))
    /\ ToNumber(SubSeq(clk, 1, 2)) <= 23
    /\ ToNumber(SubSeq(clk, 3, 4)) <= 59
    /\ ToNumber(SubSeq(clk, 5, 6)) <= 59

\* the parts of an entry's name with ".json" cut off, split at '_'
NameParts(name) == Split(SubSeq(name, 1, Len(name) - 5), {"_"})

HasJsonSuffix(name) == Len(name) >= 5 /\ SubSeq(name, Len(name) - 4, Len(name)) = ".json"

\* ListBackups keeps the directory entry e
IsBackupEntry(e) ==
    /\ ~e.IsDir
    /\ HasJsonSuffix(e.Name)
    /\ Len(NameParts(e.Name)) >= 4
    /\ NameParts(e.Name)[1] = "path"
    /\ ValidTimestamp(NameParts(e.Name)[2], NameParts(e.Name)[3])

\* the BackupInfo of an entry that is kept; the timestamp as <<date, time>>
BackupInfoOf(name, parts) ==
    [Filename  |-> name,
     Timestamp |-> <<ToNumber(parts[2]), ToNumber(parts[3])>>,
     Suffix    |-> Join(SubSeq(parts, 4, Len(parts)), "_")]

\* Timestamp.After
After(a, b) == a[1] > b[1] \/ (a[1] = b[1] /\ a[2] > b[2])

\* ListBackups over the directory entries dir: the kept entries in any
\* order sort.Slice can leave them in (no info after one that is older)
ListBackups(dir) ==
    LET infos == { BackupInfoOf(e.Name, NameParts(e.Name)) : e \in { d \in dir : IsBackupEntry(d) } }
        n     == Cardinality(infos)
    IN  { l \in [1..n -> infos] :
            /\ \A i, j \in 1..n : i # j => l[i] # l[j]
            /\ \A i, j \in 1..n : i < j => ~After(l[j].Timestamp, l[i].Timestamp) }

\* what else the backup directory holds: files and a directory that are
\* no backups
ForeignEntries ==
    { [Name |-> "invalid.json", IsDir |-> FALSE],
      [Name |-> "notes.txt", IsDir |-> FALSE],
      [Name |-> "path_20240101_120000.json", IsDir |-> FALSE],
      [Name |-> "path_20241301_120000_manual.json", IsDir |-> FALSE],
      [Name |-> "Path_20240101_120000_manual.json", IsDir |-> FALSE],
      [Name |-> "path_20240101_120000_old.json", IsDir |-> TRUE] }

\* os.ReadDir of the backup directory holding the backups fs
ReadDir(fs) == { [Name |-> BackupFileName(f), IsDir |-> FALSE] : f \in fs } \cup ForeignEntries

\* l lists backups of fs only, newest first, each with its suffix
ListsBackupsOf(l, fs) ==
    /\ \A i \in 1..Len(l) :
         \E f \in fs : /\ l[i].Filename = BackupFileName(f)
                       /\ l[i].Suffix = f.Suffix
    /\ \A i, j \in 1..Len(l) : i < j => ~After(l[j].Timestamp, l[i].Timestamp)

\* l holds the backup created as c, in front when no other is as new
HoldsCreated(l, c, fs) ==
    /\ \E i \in 1..Len(l) : l[i].Filename = BackupFileName([Timestamp |-> c[2], Suffix |-> c[3]])
    /\ (\A f \in fs : f.Filename # c => f.Timestamp < c[2])
         => (Len(l) > 0 /\ l[1].Filename = BackupFileName([Timestamp |-> c[2], Suffix |-> c[3]])
                        /\ l[1].Suffix = c[3])

\* C20: ListBackups returns only files named path_<date>_<time>_<suffix>.json,
\* newest first, each with the suffix it was created with; and after an
\* operation whose CreateBackup succeeded, the backup created is in the list,
\* at its front with its suffix when it is the most recent backup.
C20_CreatedBackupListedFirst ==
    \A l \in ListBackups(ReadDir(files)) :
        /\ ListsBackupsOf(l, files)
        /\ last.created # <<>> => HoldsCreated(l, last.created, files)

(***************************************************************************)
(* ParsePath and JoinPath, one after the other, on PATH strings of every   *)
(* shape: padded, with empty segments, with spaces inside an entry.        *)
(***************************************************************************)

\* the longest PATH string parsed, in characters
MaxPathStrLen == 5

PathStrChars == {"a", ";", " "}

\* the strings of at most n characters of the set chars
RECURSIVE StringsUpTo(_, _)
StringsUpTo(chars, n) ==
    IF n = 0 THEN {""}
    ELSE StringsUpTo(chars, n - 1)
           \cup { str \o c : str \in StringsUpTo(chars, n - 1), c \in chars }

ParseInit ==
    /\ OptIdle
    /\ BkIdle
    /\ ProgIdle
    /\ callPc = "ParsePath"
    /\ \E str \in StringsUpTo(PathStrChars, MaxPathStrLen) : callArgs = [pathStr |-> str]
    /\ callRet = <<>>

\* entries := ParsePath(pathStr)
ParsePathCall ==
    /\ callPc = "ParsePath"
    /\ callRet' = [entries |-> ParsePath(callArgs.pathStr)]
    /\ callPc' = "JoinPath"
    /\ UNCHANGED <<callArgs, optVars, bkVars, progVars>>

\* rejoined := JoinPath(entries)
JoinPathCall ==
    /\ callPc = "JoinPath"
    /\ callRet' = [entries |-> callRet.entries, rejoined |-> JoinPath(callRet.entries)]
    /\ callPc' = "joined"
    /\ UNCHANGED <<callArgs, optVars, bkVars, progVars>>

ParseNext == ParsePathCall \/ JoinPathCall

SpecParse == ParseInit /\ [][ParseNext]_vars

\* str is entries joined by semicolons, each entry non-empty and without
\* leading or trailing whitespace: no semicolon or space at either end, and
\* none next to a semicolon
WellFormedPath(str) ==
    \/ str = ""
    \/ /\ ~(CharAt(str, 1) = ";" \/ IsSpace(CharAt(str, 1)))
       /\ ~(CharAt(str, Len(str)) = ";" \/ IsSpace(CharAt(str, Len(str))))
       /\ \A i \in 2..(Len(str) - 1) :
            CharAt(str, i) = ";" =>
               /\ ~(CharAt(str, i - 1) = ";" \/ IsSpace(CharAt(str, i - 1)))
               /\ ~(CharAt(str, i + 1) = ";" \/ IsSpace(CharAt(str, i + 1)))

\* C22: JoinPath(ParsePath(s)) = s for every semicolon-joined string s whose
\* entries are all non-empty and carry no leading or trailing whitespace
C22_ParseJoinRoundTrip ==
    (callPc = "joined" /\ WellFormedPath(callArgs.pathStr)) =>
        callRet.rejoined = callArgs.pathStr

\* two entries, the first with a space inside
C22_Witness ==
    /\ callPc = "joined"
    /\ callArgs.pathStr = "a a;a"
    /\ callRet.entries = <<"a a", "a">>
    /\ callRet.rejoined = "a a;a"

(***************************************************************************)
(* NormalizePath applied to a path and then to its own result.  The paths  *)
(* have a drive letter or none; a path without drive letter that starts    *)
(* with two separators (UNC) is left out, Clean is not modelled for it.    *)
(***************************************************************************)

\* the longest path normalized, in characters after the drive letter
MaxBodyLen == 4

PathBodyChars == {"a", ".", "\\"}

NormalizeInputs ==
    { vol \o body : vol \in {"", "C:"},
                    body \in { b \in StringsUpTo(PathBodyChars, MaxBodyLen) :
                                 ~HasPrefix(b, "\\\\") } }

NormalizeInit ==
    /\ OptIdle
    /\ BkIdle
    /\ ProgIdle
    /\ callPc = "NormalizePath"
    /\ \E x \in NormalizeInputs : callArgs = [p |-> x]
    /\ callRet = <<>>

\* NormalizePath(p)
NormalizePathCall ==
    /\ callPc = "NormalizePath"
    /\ callRet' = <<NormalizePath(callArgs.p)>>
    /\ callPc' = "normalized"
    /\ UNCHANGED <<callArgs, optVars, bkVars, progVars>>

\* NormalizePath of the result
NormalizePathAgain ==
    /\ callPc = "normalized"
    /\ callRet' = Append(callRet, NormalizePath(callRet[1]))
    /\ callPc' = "renormalized"
    /\ UNCHANGED <<callArgs, optVars, bkVars, progVars>>

NormalizeNext == NormalizePathCall \/ NormalizePathAgain

SpecNormalize == NormalizeInit /\ [][NormalizeNext]_vars

\* C23: normalization is idempotent: NormalizePath(NormalizePath(x)) =
\* NormalizePath(x) for every string x
C23_NormalizeIdempotent ==
    callPc = "renormalized" => callRet[2] = callRet[1]

\* ---------------------------------------------------------------------
\* What an applied optimization wrote (applyOptimizationCmd, Update)

\* applyOptimizationCmd returned applyCompleteMsg with a nil error, which
\* Update answers by ScreenOptimizerDone
ApplyReportsSuccess ==
    /\ msg.kind = "applyOptimizationCmd"
    /\ msg'.kind = "applyCompleteMsg"
    /\ msg'.err = ""

\* C25: an applied optimization reports success (a nil error, hence the
\* done screen) only if the User PATH was written for scope user or both
\* and the System PATH was written for scope system or both
C25_SuccessMeansSelectedWritten ==
    [][ApplyReportsSuccess =>
         /\ ScopeUser(msg.scope) => Has(last'.calls, "SetPath User") /\ userPath' = OptimizedUserRaw
         /\ ScopeSystem(msg.scope) =>
              Has(last'.calls, "SetPath System") /\ systemPath' = OptimizedSystemRaw]_vars

\* ---------------------------------------------------------------------
\* Progress updates after the completion of their task (Update)

\* Update has handled the task's analysisCompleteMsg
CompletionProcessed == taskPc = "done" /\ msg = NoMsg /\ screen = "ScreenOptimizerPreview"

\* C27: a progress update of a task is never applied after the task's
\* completion message was processed: from then on the progress fields
\* stay at their reset values
C27_NoProgressAfterCompletion ==
    CompletionProcessed => loading.Current = 0 /\ loading.Total = 0 /\ loading.Item = ""

\* ---------------------------------------------------------------------
\* Which PATH entries are junction candidates (SuggestJunctionCandidates)

\* p is the junction folder itself or a path beneath it, case ignored
InsideFolder(p, folder) ==
    \/ ToLower(p) = ToLower(folder)
    \/ HasPrefix(ToLower(p), ToLower(folder) \o "\\")

\* the entry the next iteration of the loop looks at
CurrentPath == callRet.allPaths[callRet.i]

\* C28: an entry of at least 30 characters without % that is neither the
\* junction folder nor beneath it is considered as a candidate, once per
\* normalized form: the iteration that meets its normalized form for
\* the first time records it in seen
C28_OnlyFolderContentsExcluded ==
    [][(callPc = "suggestLoop" /\ callPc' = "suggestLoop"
          /\ Len(CurrentPath) >= 30 /\ ~ContainsChar(CurrentPath, "%")
          /\ ~InsideFolder(CurrentPath, callArgs.folder)
          /\ NormalizePath(CurrentPath) \notin callRet.seen)
         => callRet'.seen = callRet.seen \cup {NormalizePath(CurrentPath)}]_vars

(***************************************************************************)
(* processEntry from tryShorten on: the three rewriting steps of an entry  *)
(* that is neither a duplicate nor dead (part_003, pathext.go, envvars.go) *)
(***************************************************************************)

\* the entries: directories with a shorter 8.3 form, one whose 8.3 form is
\* longer, one in two spellings, the user folder by its 8.3 name, entries
\* that hold a variable already
ShortenPool ==
    { "C:\\Program Files", "C:\\Windows\\long folder", "C:\\Windows\\a b",
      "c:\\windows\\A B\\", "C:\\Windows\\System32", "C:\\Users\\Jo\\bin",
      "C:\\Users\\JO~1\\b", "%WINDIR%\\long folder", "%WINDIR%\\a b" }

\* the function a step called, with its argument; fn is "" when the step
\* returned before the call
Called(fn, path, current) == [fn |-> fn, path |-> path, current |-> current]

ShortenInit ==
    /\ optPc = "tryShorten"
    /\ pathStr \in ShortenPool
    /\ envVars \in SubstEnvs
    /\ \E sp \in BOOLEAN, sv \in BOOLEAN : opts = Options(TRUE, TRUE, sp, sv)
    /\ hotPaths = <<>> /\ entries = <<>> /\ idx = 1
    /\ proc = newEntryProcessor /\ survivors = <<>> /\ result = NoResult
    /\ substOut = NoSubst
    /\ BkIdle
    /\ ProgIdle
    /\ callPc = "processEntry" /\ callArgs = Called("", "", pathStr) /\ callRet = <<>>

ShortenFrame == UNCHANGED <<pathStr, opts, hotPaths, envVars, entries, idx, survivors, result,
                            substOut, callPc, bkVars, progVars>>

\* current = p.tryShorten(current)
TryShorten ==
    /\ optPc = "tryShorten"
    /\ LET current == callArgs.current
           r       == tryShorten(proc, opts, current)
       IN  /\ proc' = r[1]
           /\ IF ~opts.ShortenPaths \/ ContainsChar(current, "%")
              THEN callArgs' = Called("", "", r[2]) /\ callRet' = <<>>
              ELSE /\ callArgs' = Called("ToShortPath", current, r[2])
                   /\ callRet' = ToShortPath(current)
    /\ optPc' = "trySubstituteVars"
    /\ ShortenFrame

\* current = p.trySubstituteVars(current), and the test current != beforeSubst
TrySubstituteVars ==
    /\ optPc = "trySubstituteVars"
    /\ LET current == callArgs.current
           r       == trySubstituteVars(proc, opts, envVars, current)
       IN  /\ proc' = r[1]
           /\ IF ~opts.SubstituteVars \/ ContainsChar(current, "%")
              THEN callArgs' = Called("", "", r[2]) /\ callRet' = <<>>
              ELSE /\ callArgs' = Called("SubstituteEnvVars", current, r[2])
                   /\ callRet' = SubstituteEnvVars(current, envVars)
           /\ optPc' = IF r[2] # current THEN "tryShortenSuffix" ELSE "kept"
    /\ ShortenFrame

\* current = p.tryShortenSuffix(current), and the return
TryShortenSuffix ==
    /\ optPc = "tryShortenSuffix"
    /\ LET current == callArgs.current
           r       == tryShortenSuffix(proc, opts, envVars, current)
       IN  /\ proc' = r[1]
           /\ IF ~opts.ShortenPaths
              THEN callArgs' = Called("", "", r[2]) /\ callRet' = <<>>
              ELSE /\ callArgs' = Called("ShortenSuffix", current, r[2])
                   /\ callRet' = ShortenSuffix(current, envVars)
    /\ optPc' = "kept"
    /\ ShortenFrame

ShortenNext == TryShorten \/ TrySubstituteVars \/ TryShortenSuffix

SpecShorten == ShortenInit /\ [][ShortenNext]_vars

\* C29: ToShortPath, SubstituteEnvVars and ShortenSuffix report changed =
\* true only with a result strictly shorter than their input and return
\* the input otherwise; every recorded change of kind shortened or
\* variable has Saved = len(Original) - len(New) > 0, and the entry goes
\* on as the recorded replacement
C29_AcceptedOnlyIfShorter ==
    /\ callArgs.fn # "" =>
         /\ callRet[2] => Len(callRet[1]) < Len(callArgs.path)
         /\ ~callRet[2] => callRet[1] = callArgs.path
         /\ callArgs.current = callRet[1]
    /\ \A k \in 1..Len(proc.Changes) :
         /\ proc.Changes[k].Type \in {"shortened", "variable"}
         /\ proc.Changes[k].Saved = Len(proc.Changes[k].Original) - Len(proc.Changes[k].New)
         /\ proc.Changes[k].Saved > 0
    /\ proc.Metrics.PathsShortened + proc.Metrics.VarsSubstituted = Len(proc.Changes)

\* C29 witness: C:\Windows\long folder was shortened to its 8.3 form and
\* then given the variable, both recorded; the suffix could not be
\* shortened further
C29_Witness ==
    /\ optPc = "kept"
    /\ pathStr = "C:\\Windows\\long folder"
    /\ callArgs = Called("ShortenSuffix", "%WINDIR%\\LONGFO~1", "%WINDIR%\\LONGFO~1")
    /\ callRet = <<"%WINDIR%\\LONGFO~1", FALSE>>
    /\ proc.Changes = <<PathChange("shortened", pathStr, "C:\\Windows\\LONGFO~1", 3),
                        PathChange("variable", "C:\\Windows\\LONGFO~1", "%WINDIR%\\LONGFO~1", 2)>>

(***************************************************************************)
(* DetectCustomPathVars (part_003): the %name% tokens of the two PATH      *)
(* strings that are not on the list of system variables                    *)
(***************************************************************************)

\* systemVars, the names DetectCustomPathVars never reports
systemVars ==
    { "systemroot", "windir", "userprofile", "appdata", "localappdata", "programfiles",
      "programfiles(x86)", "programw6432", "commonprogramfiles", "commonprogramfiles(x86)",
      "systemdrive", "homedrive", "homepath", "java_home", "gopath", "goroot",
      "cargo_home", "rustup_home", "nvm_home", "pnpm_home" }

CustomPathVar(name, scope) == [Name |-> name, FoundIn |-> scope]

\* the body of checkPath's loop for the token varName
noteVar(found, varName, scope) ==
    IF ToLower(varName) \in systemVars \/ ToLower(varName) \in DOMAIN found THEN found
    ELSE found @@ (ToLower(varName) :> CustomPathVar(varName, scope))

\* checkPath on the rest of the string from start on
RECURSIVE checkPath(_, _, _)
checkPath(rest, scope, found) ==
    LET i == IndexChar(rest, "%") IN
    IF i = 0 THEN found
    ELSE LET j == IndexChar(From(rest, i + 1), "%") IN
         IF j = 0 THEN found
         ELSE checkPath(From(rest, i + j + 1), scope,
                        noteVar(found, SubSeq(rest, i + 1, i + j - 1), scope))

\* DetectCustomPathVars: the values of the found map (a Go map is ranged
\* over in no particular order, so the result is taken as a set)
DetectCustomPathVars(sysPath, usrPath) ==
    LET found == checkPath(usrPath, "User", checkPath(sysPath, "System", <<>>)) IN
    { found[k] : k \in DOMAIN found }

\* PATH strings: each variable of SubstitutionPriority in front of a
\* directory, as written and in lower case, between two plain entries
PriorityPaths ==
    { "C:\\a;%" \o SubstitutionPriority[i] \o "%\\bin;C:\\b" : i \in 1..Len(SubstitutionPriority) }
      \cup { "C:\\a;%" \o ToLower(SubstitutionPriority[i]) \o "%\\bin;C:\\b" :
               i \in 1..Len(SubstitutionPriority) }

\* and PATH strings without a variable, with a variable of the user's own,
\* with a lone %
OtherPaths == { "", "C:\\a;C:\\b", "%MY_TOOLS%\\bin;%my_tools%", "C:\\100%;%WINDIR%" }

DetectInit ==
    /\ OptIdle
    /\ ProgIdle
    /\ clock = 0 /\ files = {} /\ pathExt = <<>>
    /\ isAdmin = FALSE /\ maxBackups = DefaultMaxBackups /\ screen = "none" /\ msg = NoMsg
    /\ mErr = "" /\ mBackupInfo = NoBackupInfo /\ last = NoOp /\ names = <<>> /\ ops = 0
    /\ keysDropped = 0 /\ sel = NoSel /\ links = {}
    /\ \/ systemPath \in PriorityPaths /\ userPath \in OtherPaths
       \/ systemPath \in OtherPaths /\ userPath \in PriorityPaths \cup OtherPaths
    /\ callPc = "DetectCustomPathVars"
    /\ callArgs = [sysPath |-> systemPath, usrPath |-> userPath]
    /\ callRet = <<>>

\* the call DetectCustomPathVars(sysPath, usrPath), as AnalyzeAllWithProgress
\* makes it with the raw System and User PATH
DetectCall ==
    /\ callPc = "DetectCustomPathVars"
    /\ callRet' = <<DetectCustomPathVars(callArgs.sysPath, callArgs.usrPath)>>
    /\ callPc' = "detected"
    /\ UNCHANGED <<callArgs, optVars, bkVars, progVars>>

DetectNext == DetectCall

SpecDetect == DetectInit /\ [][DetectNext]_vars

\* C30: no variable of SubstitutionPriority is reported as a custom
\* variable, in whatever letter case the System or User PATH holds it
C30_PriorityVarsNeverCustom ==
    callPc = "detected" =>
        \A v \in callRet[1] : \A i \in 1..Len(SubstitutionPriority) :
            ToLower(v.Name) # ToLower(SubstitutionPriority[i])

(***************************************************************************)
(* The screens of the UI (model.go): Update's key handlers, the commands   *)
(* they start and the messages the commands return.  Indices count from 0  *)
(* as in the source; the element of a list l at index i is l[i + 1].       *)
(***************************************************************************)

\* the key presses followed in one session
MaxKeys == 4

InRange(i, l) == 0 <= i /\ i < Len(l)

At(l, i) == l[i + 1]

\* append(l[:i], l[i+1:]...)
RemoveAt(l, i) == SubSeq(l, 1, i) \o SubSeq(l, i + 2, Len(l))

\* l[i], l[j] = l[j], l[i]
Swapped(l, i, j) == [l EXCEPT ![i + 1] = l[j + 1], ![j + 1] = l[i + 1]]

\* ListBackups as the Model holds it: one BackupInfo per backup file, the
\* newest first, backups of the same second in either order
BackupList(fs) ==
    { l \in [1..Cardinality(fs) -> fs] :
        /\ \A i, j \in 1..Cardinality(fs) : i # j => l[i] # l[j]
        /\ \A i, j \in 1..Cardinality(fs) : i < j => l[i].Timestamp >= l[j].Timestamp }

\* Update, case tea.KeyMsg, on the screen scr: handleKey reaches the
\* handler of that screen
KeyOn(scr) == screen = scr /\ ops < MaxKeys /\ ops' = ops + 1

\* the Model after the handler
Shows(scr, s) == screen' = scr /\ sel' = s

\* an index outside its list: the Go runtime panics and the program ends
Panics == screen' = "panic" /\ sel' = sel

UiRest == UNCHANGED <<optPc, pathStr, opts, envVars, entries, idx, proc, survivors, result,
                      substOut, callVars, progVars, clock, isAdmin, mBackupInfo, last, names,
                      keysDropped>>

UiDisk == UNCHANGED <<files, links, userPath, systemPath, pathExt, maxBackups, hotPaths>>

\* a handler that only navigates
Navigates == UiDisk /\ UiRest /\ UNCHANGED <<msg, mErr>>

\* a handler that returns a command: the screen is ScreenLoading
Dispatches(s, cmd) == Shows("ScreenLoading", s) /\ msg' = cmd /\ UiDisk /\ UiRest /\ UNCHANGED mErr

\* index-- if index > 0
Up(i) == IF i > 0 THEN i - 1 ELSE i

\* index++ if index < len - 1
Down(i, len) == IF i < len - 1 THEN i + 1 ELSE i

\* the clamp after a deletion: if index >= len && index > 0 { index-- }
ClampByOne(i, len) == IF i >= len /\ i > 0 THEN i - 1 ELSE i

\* Model.selectMenuItem with m.menuIndex = i (7, Exit, ends the program)
selectMenuItem(i) ==
    LET s == [sel EXCEPT !.menuIndex = i] IN
    CASE i = 0 -> Dispatches(s, [kind |-> "analyzeCmd"])
      [] i = 1 -> Shows("ScreenPathViewer", s) /\ Navigates
      [] i = 2 -> /\ \E l \in BackupList(files) :
                       Shows("ScreenBackup", [s EXCEPT !.backups = l, !.backupIndex = 0])
                  /\ Navigates
      [] i = 3 -> Dispatches(s, [kind |-> "loadJunctionsCmd"])
      [] i = 4 -> /\ \E read1 \in BOOLEAN, read2 \in BOOLEAN :
                       Shows("ScreenPathExt",
                             [s EXCEPT !.pathExtCurrent = AnalyzePathExt(pathExt, read1, read1).Current,
                                       !.pathExtOpt = OptimizePathExt(pathExt, TRUE, read2).Optimized,
                                       !.pathExtChanged = OptimizePathExt(pathExt, TRUE, read2).Changed])
                  /\ Navigates
      [] i = 5 -> Shows("ScreenHotPaths", s) /\ Navigates
      [] i = 6 -> Shows("ScreenSettings", s) /\ Navigates
      [] OTHER -> FALSE

\* Model.handleMenuKey: up, down, enter, and the digits 1..8
handleMenuKey ==
    /\ KeyOn("ScreenMenu")
    /\ \/ Shows("ScreenMenu", [sel EXCEPT !.menuIndex = Up(@)]) /\ Navigates
       \/ Shows("ScreenMenu", [sel EXCEPT !.menuIndex = Down(@, 8)]) /\ Navigates
       \/ selectMenuItem(sel.menuIndex)
       \/ \E digit \in 1..8 : selectMenuItem(digit - 1)

\* Model.handleViewerKey: esc (the other keys scroll and switch the view)
handleViewerKey ==
    /\ KeyOn("ScreenPathViewer")
    /\ Shows("ScreenMenu", sel)
    /\ Navigates

\* Model.handleBackupCreate: CreateBackup("manual"), then ListBackups
handleBackupCreate ==
    \E c \in CreateBackup(files, clock, "manual", systemPath, userPath, maxBackups) :
       /\ files' = c.files
       /\ IF c.ok
          THEN \E l \in BackupList(c.files) : Shows("ScreenBackup", [sel EXCEPT !.backups = l])
          ELSE Shows("ScreenBackup", sel)
       /\ UNCHANGED <<links, userPath, systemPath, pathExt, maxBackups, hotPaths, msg, mErr>>
       /\ UiRest

\* Model.handleBackupView: LoadBackup(m.backups[m.backupIndex].Filename)
handleBackupView ==
    /\ IF Len(sel.backups) = 0 THEN Shows("ScreenBackup", sel)
       ELSE IF ~InRange(sel.backupIndex, sel.backups) THEN Panics
       ELSE \/ /\ At(sel.backups, sel.backupIndex) \in files
               /\ Shows("ScreenBackupPreview", sel)
            \/ Shows("ScreenBackup", sel)
    /\ Navigates

\* "r" and "d" of handleBackupKey; the confirmation screen is then drawn
\* by viewConfirmBackup, which reads m.backups[m.backupIndex]
confirmBackup(scr) ==
    /\ IF Len(sel.backups) = 0 THEN Shows("ScreenBackup", sel)
       ELSE IF ~InRange(sel.backupIndex, sel.backups) THEN Panics
       ELSE Shows(scr, sel)
    /\ Navigates

\* Model.handleBackupKey: esc, up, down, c, v, r, d
handleBackupKey ==
    /\ KeyOn("ScreenBackup")
    /\ \/ Shows("ScreenMenu", sel) /\ Navigates
       \/ Shows("ScreenBackup", [sel EXCEPT !.backupIndex = Up(@)]) /\ Navigates
       \/ Shows("ScreenBackup", [sel EXCEPT !.backupIndex = Down(@, Len(sel.backups))])
            /\ Navigates
       \/ handleBackupCreate
       \/ handleBackupView
       \/ confirmBackup("ScreenBackupConfirmRestore")
       \/ confirmBackup("ScreenBackupConfirmDelete")

\* Model.handleBackupPreviewKey: esc (up and down scroll)
handleBackupPreviewKey ==
    /\ KeyOn("ScreenBackupPreview")
    /\ Shows("ScreenBackup", sel)
    /\ Navigates

\* "y" on ScreenBackupConfirmRestore: RestoreBackup of the selected backup
confirmRestore(b) ==
    \/ /\ mErr' = "load"
       /\ Shows(screen, sel)
       /\ UNCHANGED <<files, userPath, systemPath>>
    \/ /\ b \in files
       /\ \E c \in CreateBackup(files, clock, "pre-restore", systemPath, userPath, maxBackups) :
            \E uOk \in BOOLEAN, sOk \in BOOLEAN :
               LET w == RestoreWrites(b, isAdmin, userPath, systemPath, uOk, sOk) IN
               /\ files' = c.files
               /\ userPath' = w.user
               /\ systemPath' = w.system
               /\ mErr' = IF w.err # "" THEN w.err ELSE mErr
               /\ Shows(IF w.err # "" THEN screen ELSE "ScreenBackupDone", sel)

\* "y" on ScreenBackupConfirmDelete: DeleteBackup, ListBackups, the clamp
confirmDelete(b) ==
    /\ \E ok \in BOOLEAN :
         /\ files' = IF ok THEN files \ {b} ELSE files
         /\ \E l \in BackupList(files') :
              Shows("ScreenBackup",
                    [sel EXCEPT !.backups = l,
                                !.backupIndex = ClampByOne(sel.backupIndex, Len(l))])
    /\ UNCHANGED <<userPath, systemPath, mErr>>

\* Model.handleBackupConfirmKey: y, n
handleBackupConfirmKey ==
    /\ screen \in {"ScreenBackupConfirmRestore", "ScreenBackupConfirmDelete"}
    /\ KeyOn(screen)
    /\ \/ /\ IF ~InRange(sel.backupIndex, sel.backups)
             THEN Panics /\ UNCHANGED <<files, userPath, systemPath, mErr>>
             ELSE IF screen = "ScreenBackupConfirmRestore"
                  THEN confirmRestore(At(sel.backups, sel.backupIndex))
                  ELSE confirmDelete(At(sel.backups, sel.backupIndex))
          /\ UNCHANGED <<links, pathExt, maxBackups, hotPaths, msg>>
          /\ UiRest
       \/ Shows("ScreenBackup", sel) /\ Navigates

\* Model.handleDoneKey(key, backTo): c copies the refresh command, esc goes
\* back, to the backup list with ListBackups read again
handleDoneKey ==
    /\ screen \in {"ScreenOptimizerDone", "ScreenBackupDone", "ScreenPathExtDone"}
    /\ KeyOn(screen)
    /\ \/ Shows(screen, sel)
       \/ IF screen = "ScreenBackupDone"
          THEN \E l \in BackupList(files) : Shows("ScreenBackup", [sel EXCEPT !.backups = l])
          ELSE Shows("ScreenMenu", sel)
    /\ Navigates

\* Model.handleOptimizerKey on the preview: esc, s (cycleScopeMode), a (the
\* digits choose a view and up and down scroll)
handleOptimizerKey ==
    /\ KeyOn("ScreenOptimizerPreview")
    /\ \/ Shows("ScreenMenu", sel)
       \/ Shows(screen, [sel EXCEPT !.optimizerScope =
                           CASE @ = "both" -> "system" [] @ = "system" -> "user" [] OTHER -> "both"])
       \/ Shows("ScreenOptimizerConfirm", sel)
    /\ Navigates

\* Model.handleOptimizerConfirmKey: y starts applyOptimizationCmd, n goes back
handleOptimizerConfirmKey ==
    /\ KeyOn("ScreenOptimizerConfirm")
    /\ \/ Dispatches(sel, [kind |-> "applyOptimizationCmd", scope |-> sel.optimizerScope,
                           isAdmin |-> isAdmin])
       \/ Shows("ScreenOptimizerPreview", sel) /\ Navigates

\* ListJunctions: the junctions of the folder in the order the shell lists
\* them, or none when the shell command fails
ListJunctions(ls) ==
    { <<>> } \cup
    { l \in [1..Cardinality(ls) -> ls] : \A i, j \in 1..Cardinality(ls) : i # j => l[i] # l[j] }

\* the loop of SuggestJunctionCandidates
RECURSIVE SuggestLoop(_, _)
SuggestLoop(st, folder) ==
    IF st.i > Len(st.allPaths) THEN st
    ELSE SuggestLoop([SuggestFor(st, st.allPaths[st.i], folder) EXCEPT !.i = st.i + 1], folder)

\* SuggestJunctionCandidates for the PATH values read and the junctions listed
SuggestionsFor(sys, usr, folder, existing) ==
    SortedBySavings(
      SuggestLoop([allPaths    |-> ParsePath(sys) \o ParsePath(usr),
                   i           |-> 1,
                   suggestions |-> <<>>,
                   seen        |-> {},
                   usedNames   |-> [ n \in { ToLower(existing[k]) : k \in 1..Len(existing) } |-> 1 ]],
                  folder).suggestions)

SuggestJunctionCandidates ==
    UNION { SuggestionsFor(sys, usr, JunctionFolder, existing) :
              sys \in GetPathRaw(systemPath), usr \in GetPathRaw(userPath),
              existing \in ListJunctions(links) }

\* CreateJunction(name, target): the junction folder after, and the error
CreateJunction(ls, name, target, shellOk) ==
    IF \E l \in ls : ToLower(l) = ToLower(name)
    THEN [links |-> ls, err |-> "junction already exists"]
    ELSE IF ~PathExists(target) THEN [links |-> ls, err |-> "target path does not exist"]
    ELSE IF ~shellOk THEN [links |-> ls, err |-> "mklink"]
    ELSE [links |-> ls \cup {name}, err |-> ""]

\* Model.handleJunctionsDelete: RemoveJunction, ListJunctions, the clamp
handleJunctionsDelete ==
    IF Len(sel.junctions) = 0 THEN Shows(screen, sel) /\ UNCHANGED links
    ELSE IF ~InRange(sel.junctionIndex, sel.junctions) THEN Panics /\ UNCHANGED links
    ELSE \E ok \in BOOLEAN :
           /\ links' = IF ok THEN links \ {At(sel.junctions, sel.junctionIndex)} ELSE links
           /\ \E l \in ListJunctions(links') :
                Shows(screen, [sel EXCEPT !.junctions = l,
                                          !.junctionIndex = ClampByOne(@, Len(l))])

\* Model.handleJunctionsKey: esc, 1, 2, 3, d, up, down
handleJunctionsKey ==
    /\ KeyOn("ScreenJunctions")
    /\ \/ Shows("ScreenMenu", sel) /\ Navigates
       \/ Dispatches(sel, [kind |-> "loadJunctionsCmd"])
       \/ Dispatches(sel, [kind |-> "loadSuggestionsCmd"])
       \/ /\ Shows("ScreenJunctionCreate",
                   [sel EXCEPT !.junctionName = "", !.junctionTarget = "", !.junctionInputMode = 0])
          /\ mErr' = ""
          /\ UiDisk /\ UiRest /\ UNCHANGED msg
       \/ /\ handleJunctionsDelete
          /\ UNCHANGED <<files, userPath, systemPath, pathExt, maxBackups, hotPaths, msg, mErr>>
          /\ UiRest
       \/ Shows(screen, [sel EXCEPT !.junctionIndex = Up(@)]) /\ Navigates
       \/ Shows(screen, [sel EXCEPT !.junctionIndex = Down(@, Len(sel.junctions))]) /\ Navigates

\* Model.handleJunctionSuggestionsKey: esc, c, up, down
handleJunctionSuggestionsKey ==
    /\ KeyOn("ScreenJunctionSuggestions")
    /\ \/ /\ \E l \in ListJunctions(links) :
               Shows("ScreenJunctions", [sel EXCEPT !.junctions = l, !.junctionIndex = 0])
          /\ Navigates
       \/ IF Len(sel.suggestions) > 0 /\ sel.junctionIndex < Len(sel.suggestions)
          THEN IF sel.junctionIndex < 0 THEN Panics /\ Navigates
               ELSE Dispatches(sel, [kind   |-> "createJunctionCmd",
                                     name   |-> At(sel.suggestions, sel.junctionIndex).SuggestedName,
                                     target |-> At(sel.suggestions, sel.junctionIndex).OriginalPath])
          ELSE Shows(screen, sel) /\ Navigates
       \/ Shows(screen, [sel EXCEPT !.junctionIndex = Up(@)]) /\ Navigates
       \/ Shows(screen, [sel EXCEPT !.junctionIndex = Down(@, Len(sel.suggestions))]) /\ Navigates

\* what the keyboard types into a text input
InputChars == { "j" }

\* the input without its last character, if it has one
Backspace(t) == IF Len(t) > 0 THEN SubSeq(t, 1, Len(t) - 1) ELSE t

\* Model.handleJunctionCreateEnter
handleJunctionCreateEnter ==
    IF sel.junctionInputMode = 0 /\ sel.junctionName # ""
    THEN Shows(screen, [sel EXCEPT !.junctionInputMode = 1]) /\ UNCHANGED <<links, mErr>>
    ELSE IF sel.junctionInputMode = 1 /\ sel.junctionTarget # "" /\ sel.junctionName # ""
    THEN \E shellOk \in BOOLEAN :
           LET r == CreateJunction(links, sel.junctionName, sel.junctionTarget, shellOk) IN
           /\ links' = r.links
           /\ IF r.err # ""
              THEN mErr' = r.err /\ Shows(screen, sel)
              ELSE /\ mErr' = ""
                   /\ \E l \in ListJunctions(r.links) :
                        Shows("ScreenJunctions", [sel EXCEPT !.junctions = l])
    ELSE Shows(screen, sel) /\ UNCHANGED <<links, mErr>>

\* Model.handleJunctionCreateKey: esc, tab, enter, backspace, a character
handleJunctionCreateKey ==
    /\ KeyOn("ScreenJunctionCreate")
    /\ \/ /\ \E l \in ListJunctions(links) :
               Shows("ScreenJunctions", [sel EXCEPT !.junctions = l])
          /\ mErr' = ""
          /\ UNCHANGED links
       \/ /\ Shows(screen, [sel EXCEPT !.junctionInputMode = (@ + 1) % 2])
          /\ UNCHANGED <<links, mErr>>
       \/ handleJunctionCreateEnter
       \/ /\ Shows(screen, IF sel.junctionInputMode = 0
                           THEN [sel EXCEPT !.junctionName = Backspace(@)]
                           ELSE [sel EXCEPT !.junctionTarget = Backspace(@)])
          /\ UNCHANGED <<links, mErr>>
       \/ /\ \E c \in InputChars :
               Shows(screen, IF sel.junctionInputMode = 0
                             THEN [sel EXCEPT !.junctionName = @ \o c]
                             ELSE [sel EXCEPT !.junctionTarget = @ \o c])
          /\ UNCHANGED <<links, mErr>>
    /\ UNCHANGED <<files, userPath, systemPath, pathExt, maxBackups, hotPaths, msg>>
    /\ UiRest

\* Model.updatePathExtOpt: the optimization is the edited list
WithPathExtOpt(s) ==
    [s EXCEPT !.pathExtOpt = s.pathExtList,
              !.pathExtChanged = Join(s.pathExtList, ";") # Join(s.pathExtCurrent, ";")]

\* Model.movePathExtUp
movePathExtUp ==
    IF sel.pathExtIndex > 0
    THEN IF ~InRange(sel.pathExtIndex, sel.pathExtList) THEN Panics
         ELSE Shows(screen,
                    WithPathExtOpt([sel EXCEPT !.pathExtList = Swapped(@, sel.pathExtIndex,
                                                                       sel.pathExtIndex - 1),
                                               !.pathExtIndex = @ - 1]))
    ELSE Shows(screen, sel)

\* Model.movePathExtDown
movePathExtDown ==
    IF sel.pathExtIndex < Len(sel.pathExtList) - 1
    THEN IF sel.pathExtIndex < 0 THEN Panics
         ELSE Shows(screen,
                    WithPathExtOpt([sel EXCEPT !.pathExtList = Swapped(@, sel.pathExtIndex,
                                                                       sel.pathExtIndex + 1),
                                               !.pathExtIndex = @ + 1]))
    ELSE Shows(screen, sel)

\* Model.removePathExtEntry
removePathExtEntry ==
    IF Len(sel.pathExtList) > 1
    THEN IF ~InRange(sel.pathExtIndex, sel.pathExtList) THEN Panics
         ELSE Shows(screen,
                    WithPathExtOpt([sel EXCEPT !.pathExtList = RemoveAt(@, sel.pathExtIndex),
                                               !.pathExtIndex =
                                                  IF @ >= Len(sel.pathExtList) - 1
                                                  THEN Len(sel.pathExtList) - 2 ELSE @]))
    ELSE Shows(screen, sel)

\* Model.handlePathExtEditKey: esc, up, down, K, J, x, a
handlePathExtEditKey ==
    \/ Shows(screen, [sel EXCEPT !.pathExtEditing = FALSE])
    \/ Shows(screen, [sel EXCEPT !.pathExtIndex = Up(@)])
    \/ Shows(screen, [sel EXCEPT !.pathExtIndex = Down(@, Len(sel.pathExtList))])
    \/ movePathExtUp
    \/ movePathExtDown
    \/ removePathExtEntry
    \/ Shows("ScreenPathExtConfirm", [sel EXCEPT !.pathExtEditing = FALSE])

\* Model.handlePathExtNormalKey: esc, e, o, a
handlePathExtNormalKey ==
    \/ Shows("ScreenMenu", sel)
    \/ Shows(screen, [sel EXCEPT !.pathExtEditing = TRUE, !.pathExtList = sel.pathExtCurrent,
                                 !.pathExtIndex = 0])
    \/ IF sel.pathExtChanged
       THEN Shows(screen, [sel EXCEPT !.pathExtEditing = TRUE, !.pathExtList = sel.pathExtOpt,
                                      !.pathExtIndex = 0])
       ELSE Shows(screen, sel)
    \/ Shows(IF sel.pathExtChanged THEN "ScreenPathExtConfirm" ELSE screen, sel)

\* Model.handlePathExtKey
handlePathExtKey ==
    /\ KeyOn("ScreenPathExt")
    /\ IF sel.pathExtEditing THEN handlePathExtEditKey ELSE handlePathExtNormalKey
    /\ Navigates

\* Model.handlePathExtConfirmKey: y applies the optimization, n goes back
handlePathExtConfirmKey ==
    /\ KeyOn("ScreenPathExtConfirm")
    /\ \/ /\ \E ok \in BOOLEAN :
               LET r == ApplyPathExt(pathExt, Join(sel.pathExtOpt, ";"),
                                     IF isAdmin THEN "System" ELSE "User", ok) IN
               /\ pathExt' = r.pathExt
               /\ mErr' = IF r.err # "" THEN r.err ELSE mErr
               /\ Shows(IF r.err # "" THEN screen ELSE "ScreenPathExtDone", sel)
          /\ UNCHANGED <<files, links, userPath, systemPath, maxBackups, hotPaths, msg>>
          /\ UiRest
       \/ Shows("ScreenPathExt", sel) /\ Navigates

\* Model.handleSettingsKey: esc, up, down, and enter, + and - on the rows
\* Max Backups and Auto Backup; SaveConfig writes the configuration
settingsKey ==
    \/ Shows("ScreenMenu", sel) /\ UNCHANGED maxBackups
    \/ Shows(screen, [sel EXCEPT !.settingsIndex = Up(@)]) /\ UNCHANGED maxBackups
    \/ Shows(screen, [sel EXCEPT !.settingsIndex = IF @ < 2 THEN @ + 1 ELSE @])
         /\ UNCHANGED maxBackups
    \/ /\ Shows(screen, sel)
       /\ \E key \in {"+", "-"} :
            IF sel.settingsIndex = 0
            THEN /\ key = "+" => maxBackups < MaxBackupsBound
                 /\ maxBackups' = IF key = "+" THEN maxBackups + 1
                                  ELSE IF maxBackups > 1 THEN maxBackups - 1 ELSE maxBackups
            ELSE UNCHANGED maxBackups

handleSettingsKey ==
    /\ KeyOn("ScreenSettings")
    /\ settingsKey
    /\ UNCHANGED <<files, links, userPath, systemPath, pathExt, hotPaths, msg, mErr>>
    /\ UiRest

\* Model.handleHotPathsInputKey: esc, enter, backspace, a character
handleHotPathsInputKey ==
    \/ Shows(screen, [sel EXCEPT !.hotPathAdding = FALSE, !.hotPathInput = ""])
         /\ UNCHANGED hotPaths
    \/ IF sel.hotPathInput # ""
       THEN /\ hotPaths' = Append(hotPaths, sel.hotPathInput)
            /\ Shows(screen, [sel EXCEPT !.hotPathAdding = FALSE, !.hotPathInput = ""])
       ELSE Shows(screen, sel) /\ UNCHANGED hotPaths
    \/ Shows(screen, [sel EXCEPT !.hotPathInput = Backspace(@)]) /\ UNCHANGED hotPaths
    \/ \E c \in InputChars :
         Shows(screen, [sel EXCEPT !.hotPathInput = @ \o c]) /\ UNCHANGED hotPaths

\* Model.deleteCurrentHotPath
deleteCurrentHotPath ==
    IF Len(hotPaths) > 0 /\ sel.hotPathIndex < Len(hotPaths)
    THEN IF sel.hotPathIndex < 0 THEN Panics /\ UNCHANGED hotPaths
         ELSE /\ hotPaths' = RemoveAt(hotPaths, sel.hotPathIndex)
              /\ Shows(screen, [sel EXCEPT !.hotPathIndex = ClampByOne(@, Len(hotPaths'))])
    ELSE Shows(screen, sel) /\ UNCHANGED hotPaths

\* Model.moveHotPathUp
moveHotPathUp ==
    IF sel.hotPathIndex > 0
    THEN IF ~InRange(sel.hotPathIndex, hotPaths) THEN Panics /\ UNCHANGED hotPaths
         ELSE /\ hotPaths' = Swapped(hotPaths, sel.hotPathIndex, sel.hotPathIndex - 1)
              /\ Shows(screen, [sel EXCEPT !.hotPathIndex = @ - 1])
    ELSE Shows(screen, sel) /\ UNCHANGED hotPaths

\* Model.moveHotPathDown
moveHotPathDown ==
    IF sel.hotPathIndex < Len(hotPaths) - 1
    THEN IF sel.hotPathIndex < 0 THEN Panics /\ UNCHANGED hotPaths
         ELSE /\ hotPaths' = Swapped(hotPaths, sel.hotPathIndex, sel.hotPathIndex + 1)
              /\ Shows(screen, [sel EXCEPT !.hotPathIndex = @ + 1])
    ELSE Shows(screen, sel) /\ UNCHANGED hotPaths

\* Model.handleHotPathsNavKey: esc, a, d, up, down, K, J
handleHotPathsNavKey ==
    \/ Shows("ScreenMenu", sel) /\ UNCHANGED hotPaths
    \/ Shows(screen, [sel EXCEPT !.hotPathAdding = TRUE, !.hotPathInput = ""])
         /\ UNCHANGED hotPaths
    \/ deleteCurrentHotPath
    \/ Shows(screen, [sel EXCEPT !.hotPathIndex = Up(@)]) /\ UNCHANGED hotPaths
    \/ Shows(screen, [sel EXCEPT !.hotPathIndex = Down(@, Len(hotPaths))]) /\ UNCHANGED hotPaths
    \/ moveHotPathUp
    \/ moveHotPathDown

\* Model.handleHotPathsKey
handleHotPathsKey ==
    /\ KeyOn("ScreenHotPaths")
    /\ IF sel.hotPathAdding THEN handleHotPathsInputKey ELSE handleHotPathsNavKey
    /\ UNCHANGED <<files, links, userPath, systemPath, pathExt, maxBackups, msg, mErr>>
    /\ UiRest

\* Update, case tea.KeyMsg, on ScreenLoading: the key is dropped
dropKeyWhileLoading ==
    /\ KeyOn("ScreenLoading")
    /\ keysDropped' = keysDropped + 1
    /\ UNCHANGED <<optVars, callVars, progVars, clock, files, userPath, systemPath, pathExt,
                   isAdmin, maxBackups, screen, msg, mErr, mBackupInfo, last, names, sel, links>>

\* a command's goroutine and the message it returns
TaskFrame == UNCHANGED <<optPc, pathStr, opts, envVars, entries, idx, proc, survivors, result,
                         substOut, callVars, progVars, clock, isAdmin, mBackupInfo, last, names,
                         keysDropped, files, userPath, systemPath, pathExt, maxBackups,
                         hotPaths, mErr, screen, sel, ops>>

\* analyzeCmd: AnalyzeAllWithProgress returns and the result is sent
analyzeCmd ==
    /\ msg.kind = "analyzeCmd"
    /\ msg' = [kind |-> "analysisCompleteMsg"]
    /\ UNCHANGED links
    /\ TaskFrame

\* loadJunctionsCmd
loadJunctionsCmd ==
    /\ msg.kind = "loadJunctionsCmd"
    /\ \E l \in ListJunctions(links) : msg' = [kind |-> "junctionsLoadedMsg", junctions |-> l]
    /\ UNCHANGED links
    /\ TaskFrame

\* loadSuggestionsCmd
loadSuggestionsCmd ==
    /\ msg.kind = "loadSuggestionsCmd"
    /\ \E l \in SuggestJunctionCandidates :
         msg' = [kind |-> "suggestionsLoadedMsg", suggestions |-> l]
    /\ UNCHANGED links
    /\ TaskFrame

\* createJunctionCmd(name, target)
createJunctionCmd ==
    /\ msg.kind = "createJunctionCmd"
    /\ \E shellOk \in BOOLEAN :
         LET r == CreateJunction(links, msg.name, msg.target, shellOk) IN
         /\ links' = r.links
         /\ msg' = [kind |-> "junctionCreatedMsg", success |-> r.err = "", name |-> msg.name,
                    err |-> r.err]
    /\ TaskFrame

\* Update's handling of a message of a command
UpdateFrame == UNCHANGED <<optPc, pathStr, opts, envVars, entries, idx, proc, survivors, result,
                           substOut, callVars, progressChan, taskPc, taskAt, totalEntries,
                           listening, clock, isAdmin, mBackupInfo, last, names, keysDropped,
                           files, links, userPath, systemPath, pathExt, maxBackups, hotPaths,
                           ops>>

ProgressReset == loading' = [loading EXCEPT !.Current = 0, !.Total = 0, !.Item = ""]

\* Model.Update, case junctionsLoadedMsg
UpdateJunctionsLoaded ==
    /\ msg.kind = "junctionsLoadedMsg"
    /\ Shows("ScreenJunctions", [sel EXCEPT !.junctions = msg.junctions, !.junctionIndex = 0])
    /\ ProgressReset
    /\ msg' = NoMsg
    /\ UNCHANGED mErr
    /\ UpdateFrame

\* Model.Update, case suggestionsLoadedMsg
UpdateSuggestionsLoaded ==
    /\ msg.kind = "suggestionsLoadedMsg"
    /\ Shows("ScreenJunctionSuggestions",
             [sel EXCEPT !.suggestions = msg.suggestions, !.junctionIndex = 0])
    /\ ProgressReset
    /\ msg' = NoMsg
    /\ UNCHANGED mErr
    /\ UpdateFrame

\* a junctionCreatedMsg handler that does not load the suggestions again
UpdateJunctionCreatedNoReload ==
    /\ msg.kind = "junctionCreatedMsg"
    /\ ProgressReset
    /\ IF msg.success
       THEN /\ Shows("ScreenLoading", sel)
            /\ msg' = NoMsg
            /\ UNCHANGED mErr
       ELSE /\ Shows("ScreenJunctionSuggestions", sel)
            /\ msg' = NoMsg
            /\ mErr' = msg.err
    /\ UpdateFrame

\* Model.Update, case junctionCreatedMsg: on success the suggestions are
\* loaded again, the screen stays ScreenLoading
UpdateJunctionCreated ==
    /\ msg.kind = "junctionCreatedMsg"
    /\ ProgressReset
    /\ IF msg.success
       THEN /\ Shows("ScreenLoading", sel)
            /\ msg' = [kind |-> "loadSuggestionsCmd"]
            /\ UNCHANGED mErr
       ELSE /\ Shows("ScreenJunctionSuggestions", sel)
            /\ msg' = NoMsg
            /\ mErr' = msg.err
    /\ UpdateFrame

\* the backups of earlier sessions
EarlierBackups ==
    { Backup(0, "manual", "C:\\Windows", "C:\\a"),
      Backup(1, "pre-optimize", "C:\\Windows", "C:\\a") }

\* the System PATH of the session: two entries long enough for a junction
UiSystemPath ==
    "C:\\Program Files\\Java\\jdk-17.0.2\\bin;C:\\Program Files\\Git\\usr\\local\\bin"

\* New(): the menu, with the registry, the configuration, the backup
\* directory and the junction folder as earlier sessions left them: two
\* backups were made, and Max Backups was then lowered to 1 in the settings
UiInit ==
    /\ optPc = "idle" /\ pathStr = "" /\ opts = DefaultOptions
    /\ hotPaths = <<"C:\\a", "C:\\b">>
    /\ envVars = OptEnv /\ entries = <<>> /\ idx = 1 /\ proc = newEntryProcessor
    /\ survivors = <<>> /\ result = NoResult /\ substOut = NoSubst
    /\ CallIdle
    /\ ProgIdle
    /\ clock = 2
    /\ files = EarlierBackups
    /\ userPath = "C:\\a"
    /\ systemPath = UiSystemPath
    /\ pathExt = [User |-> "", Machine |-> ".COM;.EXE"]
    /\ isAdmin \in BOOLEAN
    /\ maxBackups = 1
    /\ screen = "ScreenMenu"
    /\ msg = NoMsg
    /\ mErr = ""
    /\ mBackupInfo = NoBackupInfo
    /\ last = NoOp
    /\ names = <<>>
    /\ ops = 0
    /\ keysDropped = 0
    /\ sel = NoSel
    /\ links = {"bin", "tools"}

\* the commands that read the registry or list the junction folder
UiTask ==
    \/ analyzeCmd
    \/ loadJunctionsCmd
    \/ ApplyOptimizationCmd

\* the commands that compute the suggestions or create a junction
JunctionTask ==
    \/ loadSuggestionsCmd
    \/ createJunctionCmd

\* ENABLED <<JunctionTask>>_vars written out: createJunctionCmd returns a
\* message whatever CreateJunction returns, loadSuggestionsCmd returns the
\* suggestions computed, and either step changes msg
JunctionTaskEnabled ==
    \/ msg.kind = "createJunctionCmd"
    \/ msg.kind = "loadSuggestionsCmd" /\ SuggestJunctionCandidates # {}

\* the messages of the commands, handled by Update
UiUpdate ==
    \/ UpdateAnalysisComplete
    \/ UpdateJunctionsLoaded
    \/ UpdateSuggestionsLoaded
    \/ UpdateJunctionCreated
    \/ UpdateApplyComplete

UiNext ==
    \/ handleMenuKey
    \/ handleViewerKey
    \/ handleBackupKey
    \/ handleBackupPreviewKey
    \/ handleBackupConfirmKey
    \/ handleDoneKey
    \/ handleOptimizerKey
    \/ handleOptimizerConfirmKey
    \/ handleJunctionsKey
    \/ handleJunctionSuggestionsKey
    \/ handleJunctionCreateKey
    \/ handlePathExtKey
    \/ handlePathExtConfirmKey
    \/ handleSettingsKey
    \/ handleHotPathsKey
    \/ dropKeyWhileLoading
    \/ analyzeCmd
    \/ loadJunctionsCmd
    \/ loadSuggestionsCmd
    \/ createJunctionCmd
    \/ ApplyOptimizationCmd
    \/ UpdateAnalysisComplete
    \/ UpdateJunctionsLoaded
    \/ UpdateSuggestionsLoaded
    \/ UpdateJunctionCreated
    \/ UpdateApplyComplete

SpecUI == UiInit /\ [][UiNext]_vars

\* index i selects an element of the list l, or l is empty and i is not negative
Selects(i, l) == i >= 0 /\ (Len(l) > 0 => i < Len(l))

\* C24: after any sequence of key presses and task completions every
\* selection index (menu, backups, junctions and suggestions, hot paths,
\* PATHEXT entries) is at least 0 and, when its list is not empty, less
\* than the length of the list, and no handler or view has indexed outside
\* a list
C24_SelectionInRange ==
    /\ screen # "panic"
    /\ sel.menuIndex >= 0 /\ sel.menuIndex < 8
    /\ Selects(sel.backupIndex, sel.backups)
    /\ screen = "ScreenJunctions" => Selects(sel.junctionIndex, sel.junctions)
    /\ screen = "ScreenJunctionSuggestions" => Selects(sel.junctionIndex, sel.suggestions)
    /\ Selects(sel.hotPathIndex, hotPaths)
    /\ Selects(sel.pathExtIndex, sel.pathExtList)

\* the screens on which keys are handled
InteractiveScreens ==
    { "ScreenMenu", "ScreenOptimizer", "ScreenOptimizerPreview", "ScreenOptimizerConfirm",
      "ScreenOptimizerDone", "ScreenPathViewer", "ScreenBackup", "ScreenBackupPreview",
      "ScreenBackupConfirmRestore", "ScreenBackupConfirmDelete", "ScreenBackupDone",
      "ScreenJunctions", "ScreenJunctionSuggestions", "ScreenJunctionCreate", "ScreenPathExt",
      "ScreenPathExtConfirm", "ScreenPathExtDone", "ScreenSettings", "ScreenHotPaths" }

\* Bubble Tea runs every dispatched command in a goroutine of its own and
\* its event loop handles every message delivered to it: a command whose
\* shell commands return is eventually run to its message, and a delivered
\* message is eventually handled by Update.  The last conjunct is
\* WF_vars(JunctionTask): a step of JunctionTask leaves JunctionTask
\* disabled, so the weak fairness of JunctionTask is that it is disabled
\* again and again.
SpecUIFair ==
    /\ SpecUI
    /\ WF_vars(UiTask)
    /\ WF_vars(UiUpdate)
    /\ []<>(~JunctionTaskEnabled)

\* C26: whenever the UI is on the loading screen with a task dispatched and
\* the task's shell commands return, the UI eventually shows an interactive
\* screen, and a failed task (a junction that could not be created, an
\* apply that returned an error) leads to an interactive screen as well
C26_TaskRunsToCompletion ==
    /\ (screen = "ScreenLoading") ~> (screen \in InteractiveScreens)
    /\ (screen = "ScreenLoading" /\ msg.kind = "junctionCreatedMsg" /\ ~msg.success)
         ~> (screen \in InteractiveScreens /\ msg = NoMsg)
    /\ (screen = "ScreenLoading" /\ msg.kind = "applyCompleteMsg" /\ msg.err # "")
         ~> (screen \in InteractiveScreens /\ msg = NoMsg)

\* a junction could not be created, and the UI is back on the suggestions
\* with the error, after a key was dropped on the loading screen
C26_Witness ==
    /\ screen = "ScreenJunctionSuggestions"
    /\ msg = NoMsg
    /\ mErr # ""
    /\ keysDropped > 0

====
